---- MODULE Spec2Model ----
(***************************************************************************)
(* Session subsystem of codexmate (src/cli.js): session listing with its   *)
(* short-lived cache, session deletion (single and batch), the session     *)
(* merger and the leading-message filter.                                  *)
(*                                                                         *)
(* Strings are sequences of one-character strings, so that toLowerCase,    *)
(* endsWith, startsWith and includes are computed and not assumed.  A path *)
(* is a sequence of components (the text between path separators).         *)
(***************************************************************************)
EXTENDS Integers, Sequences, FiniteSets, TLC

VARIABLES
    present,      \* the paths that exist on disk (files, directories)
    claudeIndex,  \* entries of <claude root>/p/sessions-index.json
    cache,        \* g_sessionListCache: entries in insertion order
    now,          \* Date.now()
    result,       \* the request last handled and the value returned for it
    unlinked,     \* every fs.unlinkSync that succeeded: path and requested source
    deleted,      \* paths removed through the API and not created again since
    lastList,     \* per cache key, what listSessions last returned (no delete since)
    callsLeft,    \* API requests the run may still make
    extSteps,     \* number of changes made to the disk by other programs
    fnInput,      \* argument of the pure function under test
    fnOutput,     \* its value, once applied
    mode,         \* which machine runs: "sessions", "merge", "filter", "text", "scan"
    fileLines,    \* the lines of the session files, for the requests that read them
    pending,      \* the session-detail or export-session request in flight, if any
    codexDir      \* the files of <home>/.codex, and whether the Web server listens

vars == <<present, claudeIndex, cache, now, result, unlinked, deleted, lastList, callsLeft,
          extSteps, fnInput, fnOutput, mode, fileLines, pending, codexDir>>

----------------------------------------------------------------------------
(* Program constants *)

MAX_SESSION_LIST_SIZE == 300
SESSION_LIST_CACHE_TTL_MS == 4000
SESSION_SCAN_FACTOR == 4
SESSION_SCAN_MIN_FILES == 800
MAX_BATCH_DELETE_SESSIONS == 500
DEFAULT_LIST_LIMIT == 120
SESSION_LIST_CACHE_MAX_ENTRIES == 20
COLLECT_JSONL_MAX_FILES == 5000
MAX_EXPORT_MESSAGES == 1000
DEFAULT_SESSION_DETAIL_MESSAGES == 300
MAX_SESSION_DETAIL_MESSAGES == 1000
TRUNCATE_MAX_LENGTH == 90
SESSION_TITLE_READ_BYTES == 65536
SESSION_SUMMARY_READ_BYTES == 262144

(* Bounds of the model *)

MaxDeleteCalls == 2   \* API requests per run of the deletion machine
MaxBatchCalls == 1    \* API requests per run of the batch machine
MaxListCalls == 2     \* API requests per run of the listing machine
MaxCacheCalls == 2    \* API requests per run of the cache machine
MaxExtSteps == 1      \* external changes to the disk per run
MaxTicks == 2         \* clock steps per run
MaxBatchItems == 2    \* explicit items of a batch request (before padding)
MaxMergeLen == 3      \* items handed to mergeAndLimitSessions
MaxMessages == 4      \* messages handed to removeLeadingSystemMessage
MaxReadCalls == 2     \* API requests per run of the reading machine
MaxExtraMessages == 2 \* messages of the longest file beyond MAX_EXPORT_MESSAGES
MaxStoreCalls == 2    \* API requests per run of the full-cache machine
MaxItems == 2         \* elements of an array handed to extractMessageText
LineBytes == 100      \* length of a line of a session file, where not stated

TickMs == SESSION_LIST_CACHE_TTL_MS

----------------------------------------------------------------------------
(* Strings *)

Min(a, b) == IF a < b THEN a ELSE b
Max(a, b) == IF a > b THEN a ELSE b

\* String.prototype.toLowerCase, on the characters the model uses
LowerChar(c) ==
    CASE c = "A" -> "a" [] c = "B" -> "b" [] c = "C" -> "c" [] c = "D" -> "d"
      [] c = "E" -> "e" [] c = "F" -> "f" [] c = "G" -> "g" [] c = "I" -> "i" [] c = "J" -> "j"
      [] c = "L" -> "l" [] c = "N" -> "n" [] c = "O" -> "o" [] c = "R" -> "r"
      [] c = "S" -> "s" [] c = "T" -> "t" [] c = "U" -> "u" [] c = "X" -> "x"
      [] c = "Y" -> "y"
      [] OTHER -> c

ToLowerCase(s) == [i \in 1..Len(s) |-> LowerChar(s[i])]

StartsWith(s, prefix) ==
    /\ Len(prefix) <= Len(s)
    /\ SubSeq(s, 1, Len(prefix)) = prefix

EndsWith(s, suffix) ==
    /\ Len(suffix) <= Len(s)
    /\ SubSeq(s, Len(s) - Len(suffix) + 1, Len(s)) = suffix

Includes(s, part) ==
    \E i \in 0..(Len(s) - Len(part)) : SubSeq(s, i + 1, i + Len(part)) = part

IsWhitespace(c) == c \in {" ", "\n", "\t"}

RECURSIVE TrimStart(_)
TrimStart(s) ==
    IF s # <<>> /\ IsWhitespace(Head(s)) THEN TrimStart(Tail(s)) ELSE s

RECURSIVE TrimEnd(_)
TrimEnd(s) ==
    IF s # <<>> /\ IsWhitespace(s[Len(s)]) THEN TrimEnd(SubSeq(s, 1, Len(s) - 1)) ELSE s

Trim(s) == TrimEnd(TrimStart(s))

\* s.replace(/\s+/g, ' ')
RECURSIVE CollapseWhitespace(_)
CollapseWhitespace(s) ==
    IF s = <<>> THEN <<>>
    ELSE IF IsWhitespace(Head(s))
         THEN <<" ">> \o CollapseWhitespace(TrimStart(s))
         ELSE <<Head(s)>> \o CollapseWhitespace(Tail(s))

----------------------------------------------------------------------------
(* Paths and the disk *)

HomeDir == << <<"u">> >>
S_codex == <<".", "c", "o", "d", "e", "x">>
S_claude == <<".", "c", "l", "a", "u", "d", "e">>
S_sessions == <<"s", "e", "s", "s", "i", "o", "n", "s">>
S_SESSIONS == <<"S", "E", "S", "S", "I", "O", "N", "S">>
S_projects == <<"p", "r", "o", "j", "e", "c", "t", "s">>
S_subagents == <<"s", "u", "b", "a", "g", "e", "n", "t", "s">>
S_dotdot == <<".", ".">>
S_dot == <<".">>
JsonlExt == <<".", "j", "s", "o", "n", "l">>

CONFIG_DIR == HomeDir \o <<S_codex>>
CODEX_SESSIONS_DIR == CONFIG_DIR \o <<S_sessions>>
CLAUDE_PROJECTS_DIR == HomeDir \o <<S_claude, S_projects>>

\* The files and directories of the modelled disk.  The file system is
\* case-sensitive (Linux): <home>/.codex/SESSIONS is not the Codex root.
F_a == CODEX_SESSIONS_DIR \o << <<"a", ".", "j", "s", "o", "n", "l">> >>
F_B == CODEX_SESSIONS_DIR \o << <<"b", ".", "J", "S", "O", "N", "L">> >>
F_txt == CODEX_SESSIONS_DIR \o << <<"n", ".", "t", "x", "t">> >>
D_dir == CODEX_SESSIONS_DIR \o << <<"d", ".", "j", "s", "o", "n", "l">> >>
D_ro == CODEX_SESSIONS_DIR \o << <<"r", "o">> >>
F_ro == D_ro \o << <<"r", ".", "j", "s", "o", "n", "l">> >>
D_proj == CLAUDE_PROJECTS_DIR \o << <<"p">> >>
F_c == D_proj \o << <<"c", ".", "j", "s", "o", "n", "l">> >>
F_e == D_proj \o << <<"e", ".", "j", "s", "o", "n", "l">> >>
F_variant == CONFIG_DIR \o <<S_SESSIONS, <<"a", ".", "j", "s", "o", "n", "l">> >>
F_out == HomeDir \o << <<"x", ".", "j", "s", "o", "n", "l">> >>
\* A directory without read permission (mode 0300), a noise directory of
\* Claude, each with one session file, and a session file one level down
D_lock == CODEX_SESSIONS_DIR \o << <<"k">> >>
F_lock == D_lock \o << <<"k", ".", "j", "s", "o", "n", "l">> >>
D_sub == D_proj \o <<S_subagents>>
F_sub == D_sub \o << <<"s", ".", "j", "s", "o", "n", "l">> >>
F_d == D_dir \o << <<"d", ".", "j", "s", "o", "n", "l">> >>

Directories == {CODEX_SESSIONS_DIR, CLAUDE_PROJECTS_DIR, D_dir, D_ro, D_proj, D_lock, D_sub}
Files == {F_a, F_B, F_txt, F_ro, F_c, F_e, F_variant, F_out, F_lock, F_sub, F_d}
\* The disk of the server machines has none of the extra entries
Nodes == (Directories \cup Files) \ {D_lock, F_lock, D_sub, F_sub, F_d}

\* readdir order of the modelled entries (the order the OS lists them in)
DirOrder == <<CODEX_SESSIONS_DIR, CLAUDE_PROJECTS_DIR, F_a, F_B, D_dir, F_d, F_txt, D_lock,
              F_lock, D_ro, F_ro, D_proj, D_sub, F_sub, F_c, F_e, F_variant, F_out>>

\* Directories whose entries cannot be removed (no write permission)
ReadOnlyDirs == {D_ro}

\* Directories whose entries cannot be listed (no read permission)
UnreadableDirs == {D_lock}

Parent(p) == SubSeq(p, 1, Len(p) - 1)
Basename(p) == p[Len(p)]

\* path.resolve of an absolute path: "." and ".." are folded
RECURSIVE ResolveFrom(_, _)
ResolveFrom(done, rest) ==
    IF rest = <<>> THEN done
    ELSE IF Head(rest) = S_dot THEN ResolveFrom(done, Tail(rest))
    ELSE IF Head(rest) = S_dotdot
         THEN ResolveFrom(IF done = <<>> THEN <<>> ELSE SubSeq(done, 1, Len(done) - 1),
                          Tail(rest))
    ELSE ResolveFrom(Append(done, Head(rest)), Tail(rest))

PathResolve(p) == ResolveFrom(<<>>, p)

\* the path as one lower-cased string: fullPath.toLowerCase()
LowerPath(p) == [i \in 1..Len(p) |-> ToLowerCase(p[i])]

\* Containment on a case-sensitive file system: what "inside the root" means
\* for the files that exist.
IsPrefixPath(root, p) == Len(root) <= Len(p) /\ SubSeq(p, 1, Len(root)) = root

ExistsSync(fs, p) == p \in fs

IsDirectory(p) == p \in Directories
IsFile(p) == p \in Files

\* fs.readdirSync(dir, {withFileTypes: true}): the entries of dir, in order
Readdir(fs, dir) ==
    LET idx == {i \in 1..Len(DirOrder) :
                    /\ DirOrder[i] \in fs
                    /\ Len(DirOrder[i]) = Len(dir) + 1
                    /\ Parent(DirOrder[i]) = dir}
        RECURSIVE Build(_)
        Build(k) == IF k > Len(DirOrder) THEN <<>>
                    ELSE IF k \in idx THEN <<DirOrder[k]>> \o Build(k + 1)
                    ELSE Build(k + 1)
    IN Build(1)

\* try { entries = fs.readdirSync(dir, ...) } catch (e) { continue }: a
\* directory that cannot be read contributes no entries to a scan
ReaddirOrSkip_ignorePermission(fs, dir) == Readdir(fs, dir)

ReaddirOrSkip(fs, dir) ==
    IF dir \in UnreadableDirs \/ ~IsDirectory(dir) \/ ~ExistsSync(fs, dir) THEN <<>>
    ELSE Readdir(fs, dir)

\* fs.unlinkSync succeeds only on an existing non-directory in a writable directory
UnlinkSucceeds(fs, p) ==
    /\ p \in fs
    /\ ~IsDirectory(p)
    /\ Parent(p) \notin ReadOnlyDirs

----------------------------------------------------------------------------
(* Timestamps.  An updatedAt string is either an ISO time (its epoch        *)
(* milliseconds are kept), the empty string, or text Date.parse rejects.    *)

IsoTime(ms) == [kind |-> "iso", ms |-> ms]
EmptyTime == [kind |-> "empty", ms |-> 0]
GarbageTime == [kind |-> "garbage", ms |-> 0]

\* Date.parse(x || '') || 0
DateParseOrZero(t) == IF t.kind = "iso" THEN t.ms ELSE 0

\* toIsoTime(value, fallback)
toIsoTime(value, fallback) == IF value.kind = "iso" THEN value ELSE fallback

----------------------------------------------------------------------------
(* Content of the modelled files, as the head read sees it: the file's      *)
(* mtime, the number of records that parse, and the timestamp of the last   *)
(* record that carries one.                                                 *)

FileHead(p) ==
    CASE p = F_a -> [mtimeMs |-> 30, records |-> 2, timestamp |-> IsoTime(50)]
      [] p = F_ro -> [mtimeMs |-> 10, records |-> 1, timestamp |-> EmptyTime]
      [] p = F_c -> [mtimeMs |-> 20, records |-> 1, timestamp |-> IsoTime(-5)]
      [] p = F_e -> [mtimeMs |-> 40, records |-> 0, timestamp |-> EmptyTime]
      [] p = F_sub -> [mtimeMs |-> 60, records |-> 1, timestamp |-> EmptyTime]
      [] OTHER -> [mtimeMs |-> 5, records |-> 1, timestamp |-> EmptyTime]

----------------------------------------------------------------------------
(* Directory scans *)

isPathInside(targetPath, rootPath) ==
    LET Inside(resolvedTarget, resolvedRoot) ==
            \/ resolvedTarget = resolvedRoot
            \/ IsPrefixPath(resolvedRoot, resolvedTarget)
    IN Inside(LowerPath(PathResolve(targetPath)), LowerPath(PathResolve(rootPath)))

\* One pass over the entries of a directory in collectJsonlFiles
RECURSIVE CollectEntries(_, _, _, _)
CollectEntries(entries, stack, files, maxFiles) ==
    IF entries = <<>> THEN [stack |-> stack, files |-> files]
    ELSE LET fullPath == Head(entries)
             stack2 == IF IsDirectory(fullPath) THEN Append(stack, fullPath) ELSE stack
             files2 == IF ~IsDirectory(fullPath) /\ IsFile(fullPath)
                          /\ EndsWith(Basename(fullPath), JsonlExt)
                       THEN Append(files, fullPath) ELSE files
         IN IF Len(files2) >= maxFiles
            THEN [stack |-> stack2, files |-> files2]
            ELSE CollectEntries(Tail(entries), stack2, files2, maxFiles)

RECURSIVE CollectWalk(_, _, _, _)
CollectWalk(fs, stack, files, maxFiles) ==
    IF stack = <<>> \/ Len(files) >= maxFiles THEN files
    ELSE LET dir == stack[Len(stack)]
             rest == SubSeq(stack, 1, Len(stack) - 1)
             Continue(step) == CollectWalk(fs, step.stack, step.files, maxFiles)
         IN Continue(CollectEntries(ReaddirOrSkip(fs, dir), rest, files, maxFiles))

collectJsonlFiles(fs, rootDir, maxFiles) ==
    IF ~ExistsSync(fs, rootDir) THEN <<>>
    ELSE CollectWalk(fs, <<rootDir>>, <<>>, maxFiles)

PathIncludesDir_never(fullPath, name) == FALSE

\* fullPath.includes(ignoreSubPath), ignoreSubPath = sep + name + sep
PathIncludesDir(fullPath, name) ==
    \E i \in 1..(Len(fullPath) - 1) : fullPath[i] = name

\* One pass over the entries of a directory in collectRecentJsonlFiles
RECURSIVE RecentEntries(_, _, _, _, _, _)
RecentEntries(entries, stack, filesMeta, scanned, maxFilesScanned, ignoreDir) ==
    IF entries = <<>> THEN [stack |-> stack, filesMeta |-> filesMeta, scanned |-> scanned]
    ELSE LET fullPath == Head(entries)
         IN IF IsDirectory(fullPath)
            THEN RecentEntries(Tail(entries), Append(stack, fullPath), filesMeta, scanned,
                               maxFilesScanned, ignoreDir)
            ELSE IF ~IsFile(fullPath) \/ ~EndsWith(Basename(fullPath), JsonlExt)
            THEN RecentEntries(Tail(entries), stack, filesMeta, scanned,
                               maxFilesScanned, ignoreDir)
            ELSE IF ignoreDir # <<>> /\ PathIncludesDir(fullPath, ignoreDir)
            THEN RecentEntries(Tail(entries), stack, filesMeta, scanned,
                               maxFilesScanned, ignoreDir)
            ELSE LET meta == [filePath |-> fullPath, mtimeMs |-> FileHead(fullPath).mtimeMs]
                 IN IF scanned + 1 >= maxFilesScanned
                    THEN [stack |-> stack, filesMeta |-> Append(filesMeta, meta),
                          scanned |-> scanned + 1]
                    ELSE RecentEntries(Tail(entries), stack, Append(filesMeta, meta),
                                       scanned + 1, maxFilesScanned, ignoreDir)

RECURSIVE RecentWalk(_, _, _, _, _, _)
RecentWalk(fs, stack, filesMeta, scanned, maxFilesScanned, ignoreDir) ==
    IF stack = <<>> \/ scanned >= maxFilesScanned THEN filesMeta
    ELSE LET dir == stack[Len(stack)]
             rest == SubSeq(stack, 1, Len(stack) - 1)
             Continue(step) == RecentWalk(fs, step.stack, step.filesMeta, step.scanned,
                                          maxFilesScanned, ignoreDir)
         IN Continue(RecentEntries(ReaddirOrSkip(fs, dir), rest, filesMeta, scanned,
                                   maxFilesScanned, ignoreDir))

\* Array.prototype.sort with the comparator (a, b) => key(b) - key(a): descending
\* and stable.  The items are paired with their keys: [key |-> k, item |-> x].
RECURSIVE InsertDesc(_, _)
InsertDesc(sorted, pair) ==
    IF sorted = <<>> THEN <<pair>>
    ELSE IF Head(sorted).key >= pair.key
         THEN <<Head(sorted)>> \o InsertDesc(Tail(sorted), pair)
         ELSE <<pair>> \o sorted

RECURSIVE SortPairsDesc(_)
SortPairsDesc(pairs) ==
    IF pairs = <<>> THEN <<>>
    ELSE InsertDesc(SortPairsDesc(SubSeq(pairs, 1, Len(pairs) - 1)), pairs[Len(pairs)])

\* Array.prototype.slice(0, n)
Slice(items, n) == SubSeq(items, 1, Min(Len(items), Max(n, 0)))

collectRecentJsonlFiles(fs, rootDir, optReturnCount, optMaxFilesScanned, ignoreDir) ==
    IF ~ExistsSync(fs, rootDir) THEN <<>>
    ELSE LET returnCount == Max(1, IF optReturnCount = 0 THEN 1 ELSE optReturnCount)
             maxFilesScanned == Max(returnCount,
                                    IF optMaxFilesScanned = 0 THEN 2000 ELSE optMaxFilesScanned)
             ByMtime(filesMeta) == [i \in 1..Len(filesMeta) |->
                                       [key |-> filesMeta[i].mtimeMs, item |-> filesMeta[i]]]
             Paths(sorted) == [i \in 1..Len(sorted) |-> sorted[i].item.filePath]
         IN Paths(Slice(SortPairsDesc(ByMtime(
                RecentWalk(fs, <<rootDir>>, <<>>, 0, maxFilesScanned, ignoreDir))),
                returnCount))

----------------------------------------------------------------------------
(* Session list cache: g_sessionListCache, a Map in insertion order.  An    *)
(* entry is [key, timestamp, value]; a key is <<source, limit>>.            *)

CacheKeys(c) == {c[i].key : i \in 1..Len(c)}

CacheEntry(c, key) == c[CHOOSE i \in 1..Len(c) : c[i].key = key]

\* Map.prototype.delete
CacheDelete(c, key) == SelectSeq(c, LAMBDA e : e.key # key)

\* Map.prototype.set: a present key keeps its place, a new key goes last
CacheMapSet(c, key, entry) ==
    IF key \in CacheKeys(c)
    THEN [i \in 1..Len(c) |-> IF c[i].key = key THEN entry ELSE c[i]]
    ELSE Append(c, entry)

\* Variant: the age test reversed (an entry counts as expired while it is fresh)
getSessionListCache_reversed(c, cacheKey, forceRefresh, time) ==
    IF forceRefresh
    THEN [hit |-> FALSE, value |-> <<>>, cache |-> CacheDelete(c, cacheKey)]
    ELSE IF cacheKey \notin CacheKeys(c)
    THEN [hit |-> FALSE, value |-> <<>>, cache |-> c]
    ELSE IF (time - CacheEntry(c, cacheKey).timestamp) <= SESSION_LIST_CACHE_TTL_MS
    THEN [hit |-> FALSE, value |-> <<>>, cache |-> CacheDelete(c, cacheKey)]
    ELSE [hit |-> TRUE, value |-> CacheEntry(c, cacheKey).value, cache |-> c]

\* Variant: an expired entry is reported as a miss but left in the cache
getSessionListCache_keepExpired(c, cacheKey, forceRefresh, time) ==
    IF forceRefresh
    THEN [hit |-> FALSE, value |-> <<>>, cache |-> CacheDelete(c, cacheKey)]
    ELSE IF cacheKey \notin CacheKeys(c)
    THEN [hit |-> FALSE, value |-> <<>>, cache |-> c]
    ELSE IF (time - CacheEntry(c, cacheKey).timestamp) > SESSION_LIST_CACHE_TTL_MS
    THEN [hit |-> FALSE, value |-> <<>>, cache |-> c]
    ELSE [hit |-> TRUE, value |-> CacheEntry(c, cacheKey).value, cache |-> c]

\* Variant: forceRefresh is ignored
getSessionListCache_noForce(c, cacheKey, forceRefresh, time) ==
    IF cacheKey \notin CacheKeys(c)
    THEN [hit |-> FALSE, value |-> <<>>, cache |-> c]
    ELSE IF (time - CacheEntry(c, cacheKey).timestamp) > SESSION_LIST_CACHE_TTL_MS
    THEN [hit |-> FALSE, value |-> <<>>, cache |-> CacheDelete(c, cacheKey)]
    ELSE [hit |-> TRUE, value |-> CacheEntry(c, cacheKey).value, cache |-> c]

\* Returns [hit, value, cache]
getSessionListCache(c, cacheKey, forceRefresh, time) ==
    IF forceRefresh
    THEN [hit |-> FALSE, value |-> <<>>, cache |-> CacheDelete(c, cacheKey)]
    ELSE IF cacheKey \notin CacheKeys(c)
    THEN [hit |-> FALSE, value |-> <<>>, cache |-> c]
    ELSE IF (time - CacheEntry(c, cacheKey).timestamp) > SESSION_LIST_CACHE_TTL_MS
    THEN [hit |-> FALSE, value |-> <<>>, cache |-> CacheDelete(c, cacheKey)]
    ELSE [hit |-> TRUE, value |-> CacheEntry(c, cacheKey).value, cache |-> c]

\* Variant: the entry evicted is the newest, the one just stored
setSessionListCache_evictNewest(c, cacheKey, value, time) ==
    LET stored == CacheMapSet(c, cacheKey,
                              [key |-> cacheKey, timestamp |-> time, value |-> value])
    IN IF Len(stored) > SESSION_LIST_CACHE_MAX_ENTRIES
       THEN CacheDelete(stored, stored[Len(stored)].key)
       ELSE stored

setSessionListCache(c, cacheKey, value, time) ==
    LET stored == CacheMapSet(c, cacheKey,
                              [key |-> cacheKey, timestamp |-> time, value |-> value])
    IN IF Len(stored) > SESSION_LIST_CACHE_MAX_ENTRIES
       THEN CacheDelete(stored, stored[1].key)
       ELSE stored

invalidateSessionListCache(c) == <<>>

----------------------------------------------------------------------------
(* Session merger.  A session item is [source, filePath, updatedAt]; an     *)
(* item that is null or has no filePath has filePath = <<>>.                *)

RECURSIVE DedupSessions(_, _)
DedupSessions(items, seen) ==
    IF items = <<>> THEN <<>>
    ELSE LET item == Head(items)
             key == <<item.source, item.filePath>>
         IN IF item.filePath = <<>> \/ key \in seen
            THEN DedupSessions(Tail(items), seen)
            ELSE <<item>> \o DedupSessions(Tail(items), seen \cup {key})

\* Variant: the comparator with its operands exchanged (aTime - bTime)
sortSessionsByUpdatedAt_ascending(items) ==
    LET pairs == [i \in 1..Len(items) |->
                     [key |-> 0 - DateParseOrZero(items[i].updatedAt), item |-> items[i]]]
        Items(sorted) == [i \in 1..Len(sorted) |-> sorted[i].item]
    IN Items(SortPairsDesc(pairs))

sortSessionsByUpdatedAt(items) ==
    LET pairs == [i \in 1..Len(items) |->
                     [key |-> DateParseOrZero(items[i].updatedAt), item |-> items[i]]]
        Items(sorted) == [i \in 1..Len(sorted) |-> sorted[i].item]
    IN Items(SortPairsDesc(pairs))

\* Variant: the merger without the seen-set
mergeAndLimitSessions_nodedup(items, limit) ==
    Slice(sortSessionsByUpdatedAt(SelectSeq(items, LAMBDA item : item.filePath # <<>>)),
          limit)

mergeAndLimitSessions(items, limit) ==
    Slice(sortSessionsByUpdatedAt(DedupSessions(items, {})), limit)

----------------------------------------------------------------------------
(* Session listing *)

NoSummary == [source |-> "none", filePath |-> <<>>, updatedAt |-> EmptyTime]

\* The summary of the list view, or NoSummary (null) when the head read
\* yields no record or the file cannot be read.
parseCodexSessionSummary(fs, filePath) ==
    IF ~ExistsSync(fs, filePath) \/ FileHead(filePath).records = 0 THEN NoSummary
    ELSE [source |-> "codex", filePath |-> filePath,
          updatedAt |-> toIsoTime(FileHead(filePath).timestamp,
                                  IsoTime(FileHead(filePath).mtimeMs))]

parseClaudeSessionSummary(fs, filePath) ==
    IF ~ExistsSync(fs, filePath) \/ FileHead(filePath).records = 0 THEN NoSummary
    ELSE [source |-> "claude", filePath |-> filePath,
          updatedAt |-> toIsoTime(FileHead(filePath).timestamp,
                                  IsoTime(FileHead(filePath).mtimeMs))]

ScanCount(limit) ==
    Max(limit * SESSION_SCAN_FACTOR,
        Min(SESSION_SCAN_MIN_FILES, MAX_SESSION_LIST_SIZE * SESSION_SCAN_FACTOR))

\* for (const filePath of files) { push the summary if any; stop at limit * factor }
RECURSIVE SummarizeFiles(_, _, _, _, _)
SummarizeFiles(fs, files, sessions, limit, source) ==
    IF files = <<>> THEN sessions
    ELSE LET Push(summary) ==
                 IF summary # NoSummary THEN Append(sessions, summary) ELSE sessions
             Continue(sessions2) ==
                 IF Len(sessions2) >= limit * SESSION_SCAN_FACTOR THEN sessions2
                 ELSE SummarizeFiles(fs, Tail(files), sessions2, limit, source)
         IN Continue(Push(IF source = "codex"
                          THEN parseCodexSessionSummary(fs, Head(files))
                          ELSE parseClaudeSessionSummary(fs, Head(files))))

listCodexSessions(fs, limit) ==
    LET scanCount == ScanCount(limit)
        files == collectRecentJsonlFiles(fs, CODEX_SESSIONS_DIR, scanCount,
                                         Max(scanCount * 2, SESSION_SCAN_MIN_FILES), <<>>)
    IN mergeAndLimitSessions(SummarizeFiles(fs, files, <<>>, limit, "codex"), limit)

\* The entries of one sessions-index.json, in order
RECURSIVE IndexEntries(_, _, _, _, _)
IndexEntries(fs, projectDir, entries, sessions, limit) ==
    IF entries = <<>> THEN sessions
    ELSE LET entry == Head(entries)
             filePath == IF entry.fullPath # <<>> THEN entry.fullPath
                         ELSE projectDir \o <<entry.sessionId \o JsonlExt>>
         IN IF entry.sessionId = <<>> \/ ~ExistsSync(fs, filePath)
            THEN IndexEntries(fs, projectDir, Tail(entries), sessions, limit)
            ELSE LET sessions2 == Append(sessions,
                                    [source |-> "claude", filePath |-> filePath,
                                     updatedAt |-> toIsoTime(entry.modified, EmptyTime)])
                 IN IF Len(sessions2) >= limit * SESSION_SCAN_FACTOR THEN sessions2
                    ELSE IndexEntries(fs, projectDir, Tail(entries), sessions2, limit)

\* The index file of a project directory: only D_proj carries one
ReadIndex(fs, index, projectDir) ==
    IF projectDir = D_proj /\ ExistsSync(fs, D_proj) THEN index ELSE <<>>

RECURSIVE IndexProjects(_, _, _, _, _)
IndexProjects(fs, index, projectDirs, sessions, limit) ==
    IF projectDirs = <<>> THEN sessions
    ELSE LET Continue(sessions2) ==
                 IF Len(sessions2) >= limit * SESSION_SCAN_FACTOR THEN sessions2
                 ELSE IndexProjects(fs, index, Tail(projectDirs), sessions2, limit)
         IN Continue(IndexEntries(fs, Head(projectDirs),
                                  ReadIndex(fs, index, Head(projectDirs)),
                                  sessions, limit))

listClaudeSessions(fs, index, limit) ==
    IF ~ExistsSync(fs, CLAUDE_PROJECTS_DIR) THEN <<>>
    ELSE LET projectDirs == SelectSeq(Readdir(fs, CLAUDE_PROJECTS_DIR), IsDirectory)
             indexed == IndexProjects(fs, index, projectDirs, <<>>, limit)
             scanCount == ScanCount(limit)
             fallbackFiles == collectRecentJsonlFiles(fs, CLAUDE_PROJECTS_DIR, scanCount,
                                  Max(scanCount * 2, SESSION_SCAN_MIN_FILES), S_subagents)
             OrFallback(sessions) ==
                 IF sessions = <<>>
                 THEN SummarizeFiles(fs, fallbackFiles, <<>>, limit, "claude")
                 ELSE sessions
         IN mergeAndLimitSessions(OrFallback(indexed), limit)

\* params.limit is [finite, value]: Number(params.limit) and whether it is finite
NormalizeSource(source) == IF source = "codex" \/ source = "claude" THEN source ELSE "all"

NormalizeLimit(rawLimit) ==
    IF rawLimit.finite THEN Max(1, Min(rawLimit.value, MAX_SESSION_LIST_SIZE))
    ELSE DEFAULT_LIST_LIMIT

\* Returns [sessions, cache]
listAllSessions(params, fs, index, c, time) ==
    LET source == NormalizeSource(params.source)
        limit == NormalizeLimit(params.limit)
        cacheKey == <<source, limit>>
        codex == IF source = "all" \/ source = "codex" THEN listCodexSessions(fs, limit)
                 ELSE <<>>
        claude == IF source = "all" \/ source = "claude"
                  THEN listClaudeSessions(fs, index, limit) ELSE <<>>
        Store(cached, merged) ==
            [sessions |-> merged,
             cache |-> setSessionListCache(cached.cache, cacheKey, merged, time)]
        Lookup(cached) ==
            IF cached.hit
            THEN [sessions |-> cached.value, cache |-> cached.cache]
            ELSE Store(cached, mergeAndLimitSessions(codex \o claude, limit))
    IN Lookup(getSessionListCache(c, cacheKey, params.forceRefresh, time))

----------------------------------------------------------------------------
(* Session resolution and deletion.  A request's filePath is a path, <<>>   *)
(* when missing or blank; its sessionId is a string, <<>> when missing.     *)

NoPath == <<>>

SourceRoot(source) == IF source = "claude" THEN CLAUDE_PROJECTS_DIR ELSE CODEX_SESSIONS_DIR

\* files.find(item => path.basename(item).toLowerCase().includes(targetId))
RECURSIVE FindByBasename(_, _)
FindByBasename(files, targetId) ==
    IF files = <<>> THEN NoPath
    ELSE IF Includes(ToLowerCase(Basename(Head(files))), targetId) THEN Head(files)
    ELSE FindByBasename(Tail(files), targetId)

resolveSessionFilePath(fs, source, filePath, sessionId) ==
    LET root == SourceRoot(source)
        targetPath == PathResolve(filePath)
        targetId == ToLowerCase(Trim(sessionId))
        IfExists(matchedFile) ==
            IF matchedFile # NoPath /\ ExistsSync(fs, matchedFile) THEN matchedFile
            ELSE NoPath
        ByFilePath(p) ==
            filePath # NoPath /\ ExistsSync(fs, p) /\ isPathInside(p, root)
    IN IF ~ExistsSync(fs, root) THEN NoPath
       ELSE IF ByFilePath(targetPath) THEN targetPath
       ELSE IF targetId # <<>>
       THEN IfExists(FindByBasename(collectJsonlFiles(fs, root, COLLECT_JSONL_MAX_FILES),
                                    targetId))
       ELSE NoPath

\* path.basename(filePath, '.jsonl')
BasenameNoExt(filePath) ==
    LET name == Basename(filePath)
    IN IF EndsWith(name, JsonlExt) /\ Len(name) > Len(JsonlExt)
       THEN SubSeq(name, 1, Len(name) - Len(JsonlExt)) ELSE name

DeleteError(message, fs, c) ==
    [success |-> FALSE, error |-> message, source |-> "", sessionId |-> <<>>,
     filePath |-> NoPath, present |-> fs, cache |-> c, removed |-> {}, invalidations |-> 0]

\* Variant: a successful delete leaves the cache alone
deleteSessionFile_noInvalidate(params, skipCacheInvalidate, fs, c) ==
    LET source == IF params.source = "claude" THEN "claude"
                  ELSE IF params.source = "codex" THEN "codex" ELSE ""
        Unlink(filePath) ==
            IF filePath = NoPath THEN DeleteError("Session file not found", fs, c)
            ELSE IF ~EndsWith(ToLowerCase(Basename(filePath)), JsonlExt)
            THEN DeleteError("Invalid session file", fs, c)
            ELSE IF ~ExistsSync(fs, filePath) THEN DeleteError("Session file not found", fs, c)
            ELSE IF ~IsFile(filePath) THEN DeleteError("Session path is not a file", fs, c)
            ELSE IF ~UnlinkSucceeds(fs, filePath)
            THEN DeleteError("Failed to delete session: EACCES", fs, c)
            ELSE [success |-> TRUE, error |-> "", source |-> source,
                  sessionId |-> IF params.sessionId # <<>> THEN params.sessionId
                                ELSE BasenameNoExt(filePath),
                  filePath |-> filePath,
                  present |-> fs \ {filePath},
                  cache |-> c,
                  removed |-> {[path |-> filePath, source |-> source]},
                  invalidations |-> IF skipCacheInvalidate THEN 0 ELSE 1]
    IN IF source = "" THEN DeleteError("Invalid source", fs, c)
       ELSE Unlink(resolveSessionFilePath(fs, source, params.filePath, params.sessionId))

\* Variant: the cache is invalidated before the unlink is attempted
deleteSessionFile_invalidateFirst(params, skipCacheInvalidate, fs, c) ==
    LET source == IF params.source = "claude" THEN "claude"
                  ELSE IF params.source = "codex" THEN "codex" ELSE ""
        Unlink(filePath) ==
            IF filePath = NoPath THEN DeleteError("Session file not found", fs, c)
            ELSE IF ~EndsWith(ToLowerCase(Basename(filePath)), JsonlExt)
            THEN DeleteError("Invalid session file", fs, c)
            ELSE IF ~ExistsSync(fs, filePath) THEN DeleteError("Session file not found", fs, c)
            ELSE IF ~IsFile(filePath) THEN DeleteError("Session path is not a file", fs, c)
            ELSE IF ~UnlinkSucceeds(fs, filePath)
            THEN DeleteError("Failed to delete session: EACCES", fs, IF skipCacheInvalidate THEN c ELSE invalidateSessionListCache(c))
            ELSE [success |-> TRUE, error |-> "", source |-> source,
                  sessionId |-> IF params.sessionId # <<>> THEN params.sessionId
                                ELSE BasenameNoExt(filePath),
                  filePath |-> filePath,
                  present |-> fs \ {filePath},
                  cache |-> IF skipCacheInvalidate THEN c ELSE invalidateSessionListCache(c),
                  removed |-> {[path |-> filePath, source |-> source]},
                  invalidations |-> IF skipCacheInvalidate THEN 0 ELSE 1]
    IN IF source = "" THEN DeleteError("Invalid source", fs, c)
       ELSE Unlink(resolveSessionFilePath(fs, source, params.filePath, params.sessionId))

\* Returns the value handed back (success, error, source, sessionId, filePath)
\* together with the disk and the cache it leaves, the paths it unlinked and
\* the number of cache invalidations it made.
deleteSessionFile(params, skipCacheInvalidate, fs, c) ==
    LET source == IF params.source = "claude" THEN "claude"
                  ELSE IF params.source = "codex" THEN "codex" ELSE ""
        Unlink(filePath) ==
            IF filePath = NoPath THEN DeleteError("Session file not found", fs, c)
            ELSE IF ~EndsWith(ToLowerCase(Basename(filePath)), JsonlExt)
            THEN DeleteError("Invalid session file", fs, c)
            ELSE IF ~ExistsSync(fs, filePath) THEN DeleteError("Session file not found", fs, c)
            ELSE IF ~IsFile(filePath) THEN DeleteError("Session path is not a file", fs, c)
            ELSE IF ~UnlinkSucceeds(fs, filePath)
            THEN DeleteError("Failed to delete session: EACCES", fs, c)
            ELSE [success |-> TRUE, error |-> "", source |-> source,
                  sessionId |-> IF params.sessionId # <<>> THEN params.sessionId
                                ELSE BasenameNoExt(filePath),
                  filePath |-> filePath,
                  present |-> fs \ {filePath},
                  cache |-> IF skipCacheInvalidate THEN c ELSE invalidateSessionListCache(c),
                  removed |-> {[path |-> filePath, source |-> source]},
                  invalidations |-> IF skipCacheInvalidate THEN 0 ELSE 1]
    IN IF source = "" THEN DeleteError("Invalid source", fs, c)
       ELSE Unlink(resolveSessionFilePath(fs, source, params.filePath, params.sessionId))

\* An item of a batch request: an object with its fields, or anything else
\* (kind "other": null, a number, a string), which is read as {}.
ItemPayload(item) ==
    IF item.kind = "object" THEN item
    ELSE [kind |-> "object", source |-> "", sessionId |-> <<>>, filePath |-> NoPath]

\* One iteration of the loop of deleteSessionFilesBatch; acc is
\* [results, deleted, present, removed, invalidations], the cache is c.
BatchStep(item, acc, c) ==
    LET payload == ItemPayload(item)
        Entry(single) ==
            IF ~single.success
            THEN [success |-> FALSE,
                  source |-> IF payload.source # "" THEN payload.source ELSE "unknown",
                  sessionId |-> payload.sessionId, filePath |-> payload.filePath,
                  error |-> single.error]
            ELSE [success |-> TRUE, source |-> single.source,
                  sessionId |-> single.sessionId, filePath |-> single.filePath,
                  error |-> ""]
        Push(single) ==
            [results |-> Append(acc.results, Entry(single)),
             deleted |-> acc.deleted + (IF single.success THEN 1 ELSE 0),
             present |-> single.present,
             removed |-> acc.removed \cup single.removed,
             invalidations |-> acc.invalidations + single.invalidations]
    IN Push(deleteSessionFile(
                [source |-> payload.source, sessionId |-> payload.sessionId,
                 filePath |-> payload.filePath], TRUE, acc.present, c))

\* Variant: the loop stops at the first item that fails
RECURSIVE BatchLoop_abort(_, _, _, _, _)
BatchLoop_abort(items, lo, hi, acc, c) ==
    IF lo > hi THEN acc
    ELSE LET Continue(next) ==
                 IF next.deleted = acc.deleted THEN next
                 ELSE BatchLoop_abort(items, lo + 1, hi, next, c)
         IN Continue(BatchStep(items[lo], acc, c))

\* for (const item of items): items[lo..hi] in order, the first half and then
\* the second.  Reading acc.deleted first makes the state so far a value
\* before the next item is looked at, so the evaluation nests only as deep as
\* the logarithm of the length.
RECURSIVE BatchLoop(_, _, _, _, _)
BatchLoop(items, lo, hi, acc, c) ==
    IF acc.deleted < 0 \/ lo > hi THEN acc
    ELSE IF lo = hi THEN BatchStep(items[lo], acc, c)
    ELSE LET mid == (lo + hi) \div 2
         IN BatchLoop(items, mid + 1, hi, BatchLoop(items, lo, mid, acc, c), c)

\* Variant: the length test is off by one
deleteSessionFilesBatch_offByOne(params, fs, c) ==
    LET items == IF params.isArray THEN params.items ELSE <<>>
        rejected(message) ==
            [rejected |-> TRUE, error |-> message, success |-> FALSE, total |-> 0,
             deleted |-> 0, failed |-> 0, results |-> <<>>, present |-> fs, cache |-> c,
             removed |-> {}, invalidations |-> 0]
        Answer(done) ==
            [rejected |-> FALSE, error |-> "",
             success |-> Len(done.results) - done.deleted = 0,
             total |-> Len(done.results), deleted |-> done.deleted,
             failed |-> Len(done.results) - done.deleted,
             results |-> done.results, present |-> done.present,
             cache |-> IF done.deleted > 0 THEN invalidateSessionListCache(c) ELSE c,
             removed |-> done.removed,
             invalidations |-> done.invalidations + (IF done.deleted > 0 THEN 1 ELSE 0)]
    IN IF Len(items) = 0 THEN rejected("No sessions provided")
       ELSE IF Len(items) > MAX_BATCH_DELETE_SESSIONS + 1 THEN rejected("Too many sessions, max 500")
       ELSE Answer(BatchLoop(items, 1, Len(items),
                             [results |-> <<>>, deleted |-> 0, present |-> fs,
                              removed |-> {}, invalidations |-> 0], c))

\* params is [isArray, items]: whether params.items is an array, and its items
deleteSessionFilesBatch(params, fs, c) ==
    LET items == IF params.isArray THEN params.items ELSE <<>>
        rejected(message) ==
            [rejected |-> TRUE, error |-> message, success |-> FALSE, total |-> 0,
             deleted |-> 0, failed |-> 0, results |-> <<>>, present |-> fs, cache |-> c,
             removed |-> {}, invalidations |-> 0]
        Answer(done) ==
            [rejected |-> FALSE, error |-> "",
             success |-> Len(done.results) - done.deleted = 0,
             total |-> Len(done.results), deleted |-> done.deleted,
             failed |-> Len(done.results) - done.deleted,
             results |-> done.results, present |-> done.present,
             cache |-> IF done.deleted > 0 THEN invalidateSessionListCache(c) ELSE c,
             removed |-> done.removed,
             invalidations |-> done.invalidations + (IF done.deleted > 0 THEN 1 ELSE 0)]
    IN IF Len(items) = 0 THEN rejected("No sessions provided")
       ELSE IF Len(items) > MAX_BATCH_DELETE_SESSIONS THEN rejected("Too many sessions, max 500")
       ELSE Answer(BatchLoop(items, 1, Len(items),
                             [results |-> <<>>, deleted |-> 0, present |-> fs,
                              removed |-> {}, invalidations |-> 0], c))

----------------------------------------------------------------------------
(* Leading-message filter.  A message is [role, text], both strings.        *)

R_user == <<"u", "s", "e", "r">>
R_assistant == <<"a", "s", "s", "i", "s", "t", "a", "n", "t">>
R_system == <<"s", "y", "s", "t", "e", "m">>
R_tool == <<"t", "o", "o", "l">>

BOOTSTRAP_TEXT_MARKERS == {
    <<"a", "g", "e", "n", "t", "s", ".", "m", "d", " ", "i", "n", "s", "t", "r", "u", "c", "t", "i", "o", "n", "s">>,
    <<"<", "i", "n", "s", "t", "r", "u", "c", "t", "i", "o", "n", "s", ">">>,
    <<"<", "e", "n", "v", "i", "r", "o", "n", "m", "e", "n", "t", "_", "c", "o", "n", "t", "e", "x", "t", ">">>,
    <<"y", "o", "u", " ", "a", "r", "e", " ", "a", " ", "c", "o", "d", "i", "n", "g", " ", "a", "g", "e", "n", "t">>,
    <<"c", "o", "d", "e", "x", " ", "c", "l", "i">> }

normalizeRole(value) ==
    LET role == ToLowerCase(Trim(value))
    IN IF role = R_assistant \/ role = R_user \/ role = R_system THEN role ELSE <<>>

isBootstrapLikeText(text) ==
    LET normalized == Trim(CollapseWhitespace(ToLowerCase(text)))
    IN /\ text # <<>>
       /\ normalized # <<>>
       /\ \E marker \in BOOTSTRAP_TEXT_MARKERS : Includes(normalized, marker)

\* The while loop: the first index from startIndex on that is kept
RECURSIVE LeadingScan(_, _)
LeadingScan(messages, startIndex) ==
    IF startIndex > Len(messages) THEN startIndex
    ELSE LET item == messages[startIndex]
             isSystemRole == normalizeRole(item.role) = R_system
             isBootstrapText == isBootstrapLikeText(item.text)
         IN IF isSystemRole \/ isBootstrapText
            THEN LeadingScan(messages, startIndex + 1)
            ELSE startIndex

\* Variant: the scan starts at the first message instead of the second
removeLeadingSystemMessage_none(messages) == messages

removeLeadingSystemMessage_fromFirst(messages) ==
    IF Len(messages) = 0 THEN <<>>
    ELSE LET startIndex == LeadingScan(messages, 1)
         IN SubSeq(messages, startIndex, Len(messages))

\* Indices are 1-based here: JavaScript's startIndex = 1 is index 2
removeLeadingSystemMessage(messages) ==
    IF Len(messages) = 0 THEN <<>>
    ELSE LET startIndex == LeadingScan(messages, 2)
         IN SubSeq(messages, startIndex, Len(messages))

----------------------------------------------------------------------------
(* Session files and their records.  A file is a sequence of lines; a line  *)
(* is blank, text that JSON.parse rejects, the JSON value null, or a JSON   *)
(* object with the fields the readers look at:                              *)
(*   [json, type, timestamp, cwd, sessionId, message, payload]              *)
(* where message is [present, content] and payload is                       *)
(* [present, type, role, content, id, cwd, timestamp].  A content value is  *)
(* [kind |-> "string", text], [kind |-> "array", items], an object          *)
(* [kind |-> "object", text, value, content, output], or [kind |-> "none"]  *)
(* (null, a number, a boolean).  Of an object's fields, text, value and     *)
(* output are [string, text] (string is FALSE for a missing field and for a *)
(* value of another type) and content is a content value, or                *)
(* [kind |-> "undefined"] when the object has no such field.                *)
(* A line also carries the offset of its end in the file (end), the       *)
(* number of bytes up to and including its last character; a newline        *)
(* follows every line but the last.                                         *)

\* A field that is missing, or holds no string
NoString == [string |-> FALSE, text |-> <<>>]

StringField(text) == [string |-> TRUE, text |-> text]

Undefined == [kind |-> "undefined"]

ObjectContent(text, value, inner, output) ==
    [kind |-> "object", text |-> text, value |-> value, content |-> inner, output |-> output]

\* parts.join('\n')
RECURSIVE JoinLines(_)
JoinLines(parts) ==
    IF parts = <<>> THEN <<>>
    ELSE IF Len(parts) = 1 THEN parts[1]
    ELSE parts[1] \o <<"\n">> \o JoinLines(Tail(parts))

\* Variant: the output field is tried before the nested content
RECURSIVE extractMessageText_outputFirst(_)
extractMessageText_outputFirst(content) ==
    CASE content.kind = "string" -> Trim(content.text)
      [] content.kind = "array" ->
           Trim(JoinLines(SelectSeq([i \in 1..Len(content.items) |->
                                        extractMessageText_outputFirst(content.items[i])],
                                    LAMBDA part : part # <<>>)))
      [] content.kind = "object" ->
           IF content.text.string THEN Trim(content.text.text)
           ELSE IF content.value.string THEN Trim(content.value.text)
           ELSE IF content.output.string THEN Trim(content.output.text)
           ELSE IF content.content.kind # "undefined"
           THEN extractMessageText_outputFirst(content.content)
           ELSE <<>>
      [] OTHER -> <<>>

RECURSIVE extractMessageText(_)
extractMessageText(content) ==
    CASE content.kind = "string" -> Trim(content.text)
      [] content.kind = "array" ->
           Trim(JoinLines(SelectSeq([i \in 1..Len(content.items) |->
                                        extractMessageText(content.items[i])],
                                    LAMBDA part : part # <<>>)))
      [] content.kind = "object" ->
           IF content.text.string THEN Trim(content.text.text)
           ELSE IF content.value.string THEN Trim(content.value.text)
           ELSE IF content.content.kind # "undefined"
           THEN extractMessageText(content.content)
           ELSE IF content.output.string THEN Trim(content.output.text)
           ELSE <<>>
      [] OTHER -> <<>>

truncateText(text) ==
    LET Cut(normalized) ==
            IF Len(normalized) <= TRUNCATE_MAX_LENGTH THEN normalized
            ELSE SubSeq(normalized, 1, TRUNCATE_MAX_LENGTH - 1) \o <<"...">>
    IN IF text = <<>> THEN <<>> ELSE Cut(Trim(CollapseWhitespace(text)))

\* Variant: a line that JSON.parse rejects ends the parse with no records
parseJsonlContent_allOrNothing(lines) ==
    IF \E i \in 1..Len(lines) : lines[i].json = "invalid" THEN <<>>
    ELSE SelectSeq(lines, LAMBDA line : line.json \in {"null", "object"})

\* The loop over the lines: a blank line is passed over, a line that
\* JSON.parse rejects is caught and passed over
parseJsonlContent(lines) ==
    SelectSeq(lines, LAMBDA line : line.json \in {"null", "object"})

\* The first maxBytes bytes of a file: the lines that end within them and
\* the beginning of the line they cut.  The beginning of a line that is not
\* blank is text that JSON.parse rejects.  Empty when the file cannot be
\* opened.
getFileHeadText(fs, filePath, lines, maxBytes) ==
    LET Cut(whole) ==
            IF /\ whole < Len(lines)
               /\ (IF whole = 0 THEN 0 ELSE lines[whole].end + 1) < maxBytes
            THEN <<[lines[whole + 1] EXCEPT
                       !.json = IF @ = "blank" THEN "blank" ELSE "invalid"]>>
            ELSE <<>>
        HeadOf(complete) == complete \o Cut(Len(complete))
    IN IF ExistsSync(fs, filePath) /\ IsFile(filePath)
       THEN HeadOf(SelectSeq(lines, LAMBDA line : line.end <= maxBytes))
       ELSE <<>>

parseJsonlHeadRecords(fs, filePath, lines, maxBytes) ==
    parseJsonlContent(getFileHeadText(fs, filePath, lines, maxBytes))

\* The records of a file: its non-blank lines that JSON.parse accepts; none
\* when the file cannot be read (it is missing, or is a directory)
readJsonlRecords(fs, filePath, lines) ==
    IF ExistsSync(fs, filePath) /\ IsFile(filePath)
    THEN SelectSeq(lines, LAMBDA line : line.json \in {"null", "object"})
    ELSE <<>>

\* What the readers see in a record of the given format: whether it is a
\* Codex session_meta record with a payload (meta), and the message it
\* holds, if any (is, role, text)
RecordShape(record, source) ==
    LET Of(role, content) ==
            [meta |-> FALSE, is |-> role # <<>>, role |-> role,
             text |-> IF role # <<>> THEN extractMessageText(content) ELSE <<>>]
    IN IF record.json # "object" THEN Of(<<>>, [kind |-> "none"])
       ELSE IF source = "codex"
       THEN IF /\ record.type = <<"r", "e", "s", "p", "o", "n", "s", "e", "_", "i", "t", "e", "m">>
               /\ record.payload.present
               /\ record.payload.type = <<"m", "e", "s", "s", "a", "g", "e">>
            THEN Of(normalizeRole(record.payload.role), record.payload.content)
            ELSE [Of(<<>>, [kind |-> "none"]) EXCEPT
                     !.meta = /\ record.type = <<"s", "e", "s", "s", "i", "o", "n", "_", "m", "e", "t", "a">>
                              /\ record.payload.present]
       ELSE Of(normalizeRole(record.type),
               IF record.message.present THEN record.message.content
               ELSE [kind |-> "string", text |-> <<>>])

\* parseCodexSessionSummary and parseClaudeSessionSummary on the records of
\* the head read.  The loop over the records is written as what it leaves in
\* each variable: the last value assigned (the first, where the code assigns
\* once).  Reading a field of the record null throws.  When the head read
\* gives no title, the records of the first SESSION_TITLE_READ_BYTES bytes
\* are searched for one.
\* Returns [threw, null, source, filePath, sessionId, title, cwd, createdAt,
\* updatedAt, messageCount].
parseSessionSummary(source, fs, filePath, lines) ==
    LET Nothing(threw) ==
            [threw |-> threw, null |-> TRUE, source |-> source, filePath |-> filePath,
             sessionId |-> <<>>, title |-> <<>>, cwd |-> <<>>, createdAt |-> EmptyTime,
             updatedAt |-> EmptyTime, messageCount |-> 0]
        Walk(records, shapes) ==
            LET n == Len(records)
                LastOr(P(_), Get(_), default) ==
                    IF \E i \in 1..n : P(i)
                    THEN Get(records[CHOOSE i \in 1..n : P(i) /\ \A j \in (i + 1)..n : ~P(j)])
                    ELSE default
                FirstOr(P(_), Get(_), default) ==
                    IF \E i \in 1..n : P(i)
                    THEN Get(records[CHOOSE i \in 1..n : P(i) /\ \A j \in 1..(i - 1) : ~P(j)])
                    ELSE default
                MetaTime(r) == IF r.payload.timestamp.kind # "empty" THEN r.payload.timestamp
                               ELSE r.timestamp
                FirstPrompt(filtered) ==
                    IF \E i \in 1..Len(filtered) :
                          filtered[i].role = R_user /\ filtered[i].text # <<>>
                    THEN truncateText(
                             filtered[CHOOSE i \in 1..Len(filtered) :
                                 /\ filtered[i].role = R_user /\ filtered[i].text # <<>>
                                 /\ \A j \in 1..(i - 1) :
                                       ~(filtered[j].role = R_user /\ filtered[j].text # <<>>)].text)
                    ELSE <<>>
                Preview(found) ==
                    [k \in 1..Len(found) |-> [role |-> found[k].role, text |-> found[k].text]]
                TitleMessages(titleRecords) ==
                    Preview(SelectSeq([i \in 1..Len(titleRecords) |->
                                          RecordShape(titleRecords[i], source)],
                                      LAMBDA shape : shape.is))
                Retitled(titlePrompt, sessionId) ==
                    IF titlePrompt # <<>> THEN titlePrompt ELSE sessionId
                Summary(sessionId, filtered, firstPrompt) ==
                    [threw |-> FALSE, null |-> FALSE, source |-> source, filePath |-> filePath,
                     sessionId |-> sessionId,
                     title |->
                         IF firstPrompt # <<>> THEN firstPrompt
                         ELSE Retitled(
                                  FirstPrompt(removeLeadingSystemMessage(
                                      TitleMessages(parseJsonlHeadRecords(
                                          fs, filePath, lines, SESSION_TITLE_READ_BYTES)))),
                                  sessionId),
                     cwd |->
                         IF source = "codex"
                         THEN LastOr(LAMBDA i : shapes[i].meta /\ records[i].payload.cwd # <<>>,
                                     LAMBDA r : r.payload.cwd, <<>>)
                         ELSE FirstOr(LAMBDA i : records[i].cwd # <<>>, LAMBDA r : r.cwd, <<>>),
                     createdAt |->
                         IF source = "codex"
                         THEN LastOr(LAMBDA i : shapes[i].meta /\ MetaTime(records[i]).kind = "iso",
                                     MetaTime, EmptyTime)
                         ELSE FirstOr(LAMBDA i : records[i].timestamp.kind = "iso",
                                      LAMBDA r : r.timestamp, EmptyTime),
                     updatedAt |-> LastOr(LAMBDA i : records[i].timestamp.kind = "iso",
                                          LAMBDA r : r.timestamp,
                                          IsoTime(FileHead(filePath).mtimeMs)),
                     messageCount |-> Len(filtered)]
                Titled(sessionId, filtered) ==
                    Summary(sessionId, filtered, FirstPrompt(filtered))
            IN IF n = 0 THEN Nothing(FALSE)
               ELSE IF \E i \in 1..n : records[i].json = "null" THEN Nothing(TRUE)
               ELSE Titled(IF source = "codex"
                           THEN LastOr(LAMBDA i : shapes[i].meta /\ records[i].payload.id # <<>>,
                                       LAMBDA r : r.payload.id, BasenameNoExt(filePath))
                           ELSE BasenameNoExt(filePath),
                           removeLeadingSystemMessage(
                               Preview(SelectSeq(shapes, LAMBDA shape : shape.is))))
        Shaped(records) ==
            Walk(records, SubSeq([i \in 1..Len(records) |-> RecordShape(records[i], source)],
                                 1, Len(records)))
    IN Shaped(parseJsonlHeadRecords(fs, filePath, lines, SESSION_SUMMARY_READ_BYTES))

\* extractCodexMessageFromRecord / extractClaudeMessageFromRecord applied to
\* the records in order, until MAX_EXPORT_MESSAGES messages are held: the
\* loop of extractMessagesFromFile and of extractMessagesFromRecords.  The
\* records after the one that fills the list are not looked at.  A stream
\* that fails (missing file, a record that throws) falls back to
\* readJsonlRecords and the same loop, so both give the same value.
\* Returns [threw, sessionId, cwd, updatedAt, messages].
extractMessagesFromRecords(records, source) ==
    LET Read(n, shapes, positions) ==
            LET LastOr(P(_), Get(_), default) ==
                    IF \E i \in 1..n : P(i)
                    THEN Get(records[CHOOSE i \in 1..n : P(i) /\ \A j \in (i + 1)..n : ~P(j)])
                    ELSE default
                FirstOr(P(_), Get(_), default) ==
                    IF \E i \in 1..n : P(i)
                    THEN Get(records[CHOOSE i \in 1..n : P(i) /\ \A j \in 1..(i - 1) : ~P(j)])
                    ELSE default
            IN IF \E i \in 1..n : records[i].json = "null"
               THEN [threw |-> TRUE, sessionId |-> <<>>, cwd |-> <<>>,
                     updatedAt |-> EmptyTime, messages |-> <<>>]
               ELSE [threw |-> FALSE,
                     sessionId |->
                         IF source = "codex"
                         THEN LastOr(LAMBDA i : shapes[i].meta /\ records[i].payload.id # <<>>,
                                     LAMBDA r : r.payload.id, <<>>)
                         ELSE FirstOr(LAMBDA i : records[i].sessionId # <<>>,
                                      LAMBDA r : r.sessionId, <<>>),
                     cwd |->
                         IF source = "codex"
                         THEN LastOr(LAMBDA i : shapes[i].meta /\ records[i].payload.cwd # <<>>,
                                     LAMBDA r : r.payload.cwd, <<>>)
                         ELSE FirstOr(LAMBDA i : records[i].cwd # <<>>, LAMBDA r : r.cwd, <<>>),
                     updatedAt |-> LastOr(LAMBDA i : records[i].timestamp.kind = "iso",
                                          LAMBDA r : r.timestamp, EmptyTime),
                     messages |->
                         [k \in 1..Len(positions) |->
                             [role |-> shapes[positions[k]].role,
                              text |-> shapes[positions[k]].text,
                              timestamp |-> toIsoTime(records[positions[k]].timestamp,
                                                      EmptyTime)]]]
        UpTo(shapes, positions) ==
            IF Len(positions) >= MAX_EXPORT_MESSAGES
            THEN Read(positions[MAX_EXPORT_MESSAGES], shapes,
                      SubSeq(positions, 1, MAX_EXPORT_MESSAGES))
            ELSE Read(Len(records), shapes, positions)
        Holding(shapes) ==
            UpTo(shapes, SelectSeq([i \in 1..Len(records) |-> i],
                                   LAMBDA i : shapes[i].is /\ shapes[i].text # <<>>))
    IN Holding(SubSeq([i \in 1..Len(records) |-> RecordShape(records[i], source)],
                      1, Len(records)))

\* readSessionDetail after resolveSessionFilePath gave filePath, on what the
\* stream extracted.  A number that may be fractional is kept as twice its
\* value: params.messageLimit is [finite, halves] (Number(messageLimit) and
\* whether it is finite), and the result's messageLimit is in halves too.
\* Array.prototype.slice truncates a fractional start index.
readSessionDetail(params, source, filePath, extracted) ==
    LET Clip(allMessages, limitHalves) ==
            [threw |-> FALSE, error |-> "", source |-> source,
             sessionId |-> IF extracted.sessionId # <<>> THEN extracted.sessionId
                           ELSE IF params.sessionId # <<>> THEN params.sessionId
                           ELSE BasenameNoExt(filePath),
             cwd |-> extracted.cwd, updatedAt |-> extracted.updatedAt,
             totalMessages |-> Len(allMessages),
             clipped |-> Len(allMessages) >
                           Len(allMessages) - (Max(0, 2 * Len(allMessages) - limitHalves) \div 2),
             messageLimitHalves |-> limitHalves,
             messages |-> SubSeq(allMessages,
                                 (Max(0, 2 * Len(allMessages) - limitHalves) \div 2) + 1,
                                 Len(allMessages)),
             filePath |-> filePath, content |-> <<>>]
    IN IF extracted.threw
       THEN [threw |-> TRUE, error |-> "TypeError", source |-> source, sessionId |-> <<>>,
             cwd |-> <<>>, updatedAt |-> EmptyTime, totalMessages |-> 0, clipped |-> FALSE,
             messageLimitHalves |-> 0, messages |-> <<>>, filePath |-> filePath,
             content |-> <<>>]
       ELSE Clip(removeLeadingSystemMessage(extracted.messages),
                 IF params.messageLimit.finite
                 THEN Max(2, Min(params.messageLimit.halves, 2 * MAX_SESSION_DETAIL_MESSAGES))
                 ELSE 2 * DEFAULT_SESSION_DETAIL_MESSAGES)

\* The document as its lines (joined with "\n" by the code): ten lines of
\* header, then four lines for each message
buildSessionMarkdown(payload) ==
    LET Line(kind, value) == [kind |-> kind, index |-> 0, role |-> <<>>,
                              timestamp |-> EmptyTime, text |-> value]
        header == <<Line("title", <<>>), Line("blank", <<>>),
                    Line("source", payload.sourceLabel),
                    Line("sessionId", payload.sessionId),
                    Line("updatedAt", <<>>), Line("cwd", payload.cwd),
                    Line("filePath", <<>>), Line("blank", <<>>),
                    Line("messages", <<>>), Line("blank", <<>>)>>
        Section(index, message, part) ==
            IF part = 1
            THEN [kind |-> "heading", index |-> index,
                  role |-> IF message.role = R_assistant THEN <<"A", "s", "s", "i", "s", "t", "a", "n", "t">>
                           ELSE <<"U", "s", "e", "r">>,
                  timestamp |-> message.timestamp, text |-> <<>>]
            ELSE IF part = 3 THEN Line("body", message.text)
            ELSE Line("blank", <<>>)
    IN IF Len(payload.messages) = 0
       THEN header \o <<Line("none found", <<>>), Line("blank", <<>>)>>
       ELSE header \o [k \in 1..(4 * Len(payload.messages)) |->
                          Section(((k - 1) \div 4) + 1,
                                  payload.messages[((k - 1) \div 4) + 1],
                                  ((k - 1) % 4) + 1)]

\* exportSessionData after resolveSessionFilePath gave filePath, on what the
\* stream extracted; fs is the disk when the stream has ended.
exportSessionData(params, source, filePath, extracted, fs, lines) ==
    LET Failure(message) ==
            [threw |-> FALSE, error |-> message, source |-> source, sessionId |-> <<>>,
             cwd |-> <<>>, updatedAt |-> EmptyTime, totalMessages |-> 0, clipped |-> FALSE,
             messageLimitHalves |-> 0, messages |-> <<>>, filePath |-> filePath,
             content |-> <<>>]
        Render(state, messages, sessionId) ==
            [threw |-> FALSE, error |-> "", source |-> source, sessionId |-> sessionId,
             cwd |-> state.cwd, updatedAt |-> state.updatedAt,
             totalMessages |-> Len(messages), clipped |-> FALSE, messageLimitHalves |-> 0,
             messages |-> messages, filePath |-> filePath,
             content |-> buildSessionMarkdown(
                             [sourceLabel |-> IF source = "codex" THEN <<"C", "o", "d", "e", "x">>
                                              ELSE <<"C", "l", "a", "u", "d", "e", " ", "C", "o", "d", "e">>,
                              sessionId |-> sessionId, cwd |-> state.cwd,
                              messages |-> messages])]
        Filtered(state, messages) ==
            IF state.threw THEN [Failure("TypeError") EXCEPT !.threw = TRUE]
            ELSE IF /\ Len(messages) = 0
                    /\ ~ExistsSync(fs, filePath) \/ (IsFile(filePath) /\ lines = <<>>)
            THEN Failure("Session file is empty")
            ELSE Render(state, messages,
                        IF state.sessionId # <<>> THEN state.sessionId
                        ELSE IF params.sessionId # <<>> THEN params.sessionId
                        ELSE BasenameNoExt(filePath))
        Again(fallbackRecords) ==
            IF Len(fallbackRecords) = 0 THEN Failure("Session file is empty")
            ELSE Filtered(extractMessagesFromRecords(fallbackRecords, source),
                          removeLeadingSystemMessage(
                              extractMessagesFromRecords(fallbackRecords, source).messages))
    IN IF extracted.threw THEN Failure("Failed to parse session file")
       ELSE IF Len(extracted.messages) = 0 /\ extracted.sessionId = <<>> /\ extracted.cwd = <<>>
       THEN Again(readJsonlRecords(fs, filePath, lines))
       ELSE Filtered(extracted, removeLeadingSystemMessage(extracted.messages))

----------------------------------------------------------------------------
(* The session machine: requests of the Web API against a disk that other   *)
(* programs change, and the clock.                                          *)

F_dotdot == CODEX_SESSIONS_DIR \o <<S_dotdot, S_dotdot, Basename(F_out)>>

FilePathInputs ==
    {NoPath, F_a, F_B, F_txt, D_dir, F_ro, F_c, F_variant, F_out, F_dotdot,
     CODEX_SESSIONS_DIR}

SessionIdInputs == {<<>>, <<" ", "A">>, <<"l">>, <<"z">>}

SourceInputs == {"codex", "claude", "other"}

DeleteInputs ==
    [source : {"codex"}, filePath : FilePathInputs, sessionId : {<<>>}]
    \cup [source : {"codex", "claude"}, filePath : {NoPath, F_out},
          sessionId : SessionIdInputs \ {<<>>}]
    \cup [source : {"claude", "other"}, filePath : {F_a, F_c}, sessionId : {<<>>}]

NoLimit == [finite |-> FALSE, value |-> 0]
LimitInputs ==
    {NoLimit} \cup {[finite |-> TRUE, value |-> v] : v \in {0, 2, MAX_SESSION_LIST_SIZE + 1}}

ListInputs == [source : SourceInputs, limit : LimitInputs, forceRefresh : {FALSE}]

\* Files that other programs create and remove during a run
ExternalFiles == {F_a, F_c}

Item(source, filePath, sessionId) ==
    [kind |-> "object", source |-> source, sessionId |-> sessionId, filePath |-> filePath]

\* An item that is no object (null, a number, a string)
NoItem == [kind |-> "other", source |-> "", sessionId |-> <<>>, filePath |-> NoPath]

ItemInputs ==
    {Item("codex", F_a, <<>>), Item("codex", F_txt, <<>>), Item("claude", F_c, <<>>)}

SeqsUpTo(S, n) == UNION {[1..k -> S] : k \in 0..n}

\* A long request: count copies of one item after the explicit ones
Padding(count) == [i \in 1..count |-> Item("other", NoPath, <<>>)]

BatchInputs ==
    {[isArray |-> TRUE, items |-> items] : items \in SeqsUpTo(ItemInputs, MaxBatchItems)}
    \cup {[isArray |-> FALSE, items |-> <<>>],
          [isArray |-> TRUE, items |-> <<NoItem>>],
          [isArray |-> TRUE,
           items |-> <<Item("codex", F_a, <<>>), Item("codex", F_txt, <<>>),
                       Item("claude", F_c, <<>>)>>],
          [isArray |-> TRUE, items |-> <<NoItem, Item("codex", F_a, <<>>)>>],
          [isArray |-> TRUE,
           items |-> <<Item("codex", F_variant, <<>>), Item("codex", F_a, <<" ", "A">>),
                       Item("claude", NoPath, <<"z">>)>>]}
    \cup {[isArray |-> TRUE, items |-> <<first>> \o Padding(count)] :
             first \in {Item("codex", F_txt, <<>>), Item("claude", F_c, <<>>)},
             count \in {MAX_BATCH_DELETE_SESSIONS - 1, MAX_BATCH_DELETE_SESSIONS}}

IndexEntry(sessionId, fullPath, modified) ==
    [sessionId |-> sessionId, fullPath |-> fullPath, modified |-> modified]

\* Contents of <claude root>/p/sessions-index.json
IndexChoices ==
    { <<>>,
      <<IndexEntry(<<"c">>, NoPath, IsoTime(20))>>,
      <<IndexEntry(<<"c">>, F_c, EmptyTime), IndexEntry(<<"c">>, F_c, IsoTime(20)),
        IndexEntry(<<"e">>, NoPath, IsoTime(-5))>> }

InitialDisks == {Nodes, Nodes \ {CLAUDE_PROJECTS_DIR, D_proj, F_c, F_e}}

NoResult == [op |-> "none"]

----------------------------------------------------------------------------
(* The files of <home>/.codex: config.toml, codexmate-init.json, the        *)
(* backups of config.toml, models.json, provider-current-models.json and    *)
(* auth.json.  A config.toml is kept as what its text says: whether it      *)
(* parses as TOML, whether it carries the managed marker, its top-level     *)
(* keys and its provider blocks.                                            *)

DEFAULT_MODELS == <<"gpt-5.3-codex", "gpt-5.1-codex-max", "gpt-4-turbo", "gpt-4">>

NoFile == [exists |-> FALSE]

ConfigText(managed, initializedAt, provider, model, providers) ==
    [exists |-> TRUE, valid |-> TRUE, managed |-> managed,
     initializedAt |-> initializedAt, model_provider |-> provider, model |-> model,
     model_providers |-> providers]

\* a config.toml that is no TOML
GarbageConfig ==
    [exists |-> TRUE, valid |-> FALSE, managed |-> FALSE, initializedAt |-> 0,
     model_provider |-> "", model |-> "", model_providers |-> {}]

ProviderBlock(name, baseUrl, apiKey) ==
    [name |-> name, base_url |-> baseUrl, preferred_auth_method |-> apiKey]

HasProvider(providers, name) == \E p \in providers : p.name = name
ProviderOf(providers, name) == CHOOSE p \in providers : p.name = name

SeqIncludes(items, x) == \E i \in 1..Len(items) : items[i] = x

ModelsFile(list) == [exists |-> TRUE, list |-> list]
CurrentModelsFile(map) == [exists |-> TRUE, map |-> map]

buildDefaultConfigContent(initializedAt) ==
    ConfigText(TRUE, initializedAt, "openai", DEFAULT_MODELS[1],
               {ProviderBlock("openai", "https://api.openai.com/v1", "")})

\* toml.parse(EMPTY_CONFIG_FALLBACK_TEMPLATE)
buildVirtualDefaultConfig ==
    ConfigText(FALSE, 0, "maxx", "gpt-5.3-codex",
               {ProviderBlock("maxx", "https://maxx-direct.cloverstd.com", "sk-")})

ConfigReadable(home) == home.config.exists /\ home.config.valid

readConfigOrVirtualDefault(home) ==
    IF ConfigReadable(home) THEN home.config ELSE buildVirtualDefaultConfig

writeConfig(home, content) == [home EXCEPT !.config = content]

readModels(home) == IF home.models.exists THEN home.models.list ELSE DEFAULT_MODELS

writeModels(home, models) == [home EXCEPT !.models = ModelsFile(models)]

readCurrentModels(home) ==
    IF home.currentModels.exists THEN home.currentModels.map ELSE {}

writeCurrentModels(home, data) == [home EXCEPT !.currentModels = CurrentModelsFile(data)]

\* currentModels[provider], '' standing for undefined
CurrentModelOf(data, provider) ==
    IF \E e \in data : e.provider = provider
    THEN (CHOOSE e \in data : e.provider = provider).model
    ELSE ""

\* currentModels[provider] = model
WithCurrentModel(data, provider, model) ==
    {e \in data : e.provider # provider} \cup {[provider |-> provider, model |-> model]}

updateAuthJson(home, apiKey) == [home EXCEPT !.auth = [exists |-> TRUE, key |-> apiKey]]

\* The seconds of the time, as the backup's name carries them
formatTimestampForFileName(value) == value \div 1000

ensureSupportFiles(home, defaultProvider, defaultModel) ==
    LET Missing(existing) ==
            SelectSeq(DEFAULT_MODELS, LAMBDA model : ~SeqIncludes(existing, model))
        Models(h) ==
            IF ~h.models.exists THEN writeModels(h, DEFAULT_MODELS)
            ELSE IF Missing(readModels(h)) # <<>>
            THEN writeModels(h, readModels(h) \o Missing(readModels(h)))
            ELSE h
        Current(h) ==
            IF CurrentModelOf(readCurrentModels(h), defaultProvider) = ""
            THEN writeCurrentModels(h, WithCurrentModel(readCurrentModels(h),
                                                        defaultProvider, defaultModel))
            ELSE h
        Auth(h) == IF ~h.auth.exists THEN updateAuthJson(h, "") ELSE h
    IN Auth(Current(Models(home)))

writeInitMark(home, initializedAt, markMode, backupFile) ==
    [home EXCEPT !.mark = [exists |-> TRUE, initializedAt |-> initializedAt,
                           mode |-> markMode, backupFile |-> backupFile]]

\* backupFile: '' in the init mark
NoBackup == -1

ForceReset_anyValue(env) == env # "unset"

\* process.env.CODEXMATE_FORCE_RESET_EXISTING_CONFIG === '1'
ForceReset(env) == env = "1"

MarkTruthy_never(mark) == FALSE

\* if (mark), mark = readJsonFile(INIT_MARK_FILE, null)
MarkTruthy(mark) == mark.exists

ensureManagedConfigBootstrap(home, env, initializedAt) ==
    LET defaultProvider == "openai"
        defaultModel == DEFAULT_MODELS[1]
        backupFile == formatTimestampForFileName(initializedAt)
        Default(h) == writeConfig(h, buildDefaultConfigContent(initializedAt))
        Support(h) == ensureSupportFiles(h, defaultProvider, defaultModel)
        Copied(h) ==
            [h EXCEPT !.backups = {b \in @ : b.name # backupFile}
                                  \cup {[name |-> backupFile, content |-> h.config]}]
    IN IF MarkTruthy(home.mark)
       THEN IF ~home.config.exists THEN Support(Default(home)) ELSE Support(home)
       ELSE IF home.config.exists
       THEN IF home.config.managed
            THEN Support(writeInitMark(home, initializedAt, "managed-config-detected",
                                       NoBackup))
            ELSE IF ForceReset(env)
            THEN writeInitMark(Support(Default(Copied(home))), initializedAt,
                               "first-run-reset", backupFile)
            ELSE writeInitMark(Support(Copied(home)), initializedAt,
                               "legacy-config-preserved", backupFile)
       ELSE writeInitMark(Support(Default(home)), initializedAt, "fresh-install", NoBackup)

\* What a command leaves behind: the files, and whether it threw
Returned(home) == [home |-> home, threw |-> FALSE]
Thrown(home) == [home |-> home, threw |-> TRUE]
AndThen(outcome, Command(_)) == IF outcome.threw THEN outcome ELSE Command(outcome.home)

applyConfigTemplate(home, template) ==
    IF \/ ~template.exists
       \/ ~template.valid
       \/ template.model_provider = ""
       \/ template.model = ""
       \/ ~HasProvider(template.model_providers, template.model_provider)
    THEN home
    ELSE LET activeProviderBlock ==
                 ProviderOf(template.model_providers, template.model_provider)
             Models(h) ==
                 IF ~SeqIncludes(readModels(h), template.model)
                 THEN writeModels(h, Append(readModels(h), template.model))
                 ELSE h
             Current(h) ==
                 writeCurrentModels(h, WithCurrentModel(readCurrentModels(h),
                                                        template.model_provider,
                                                        template.model))
         IN Current(Models(updateAuthJson(writeConfig(home, template),
                                          activeProviderBlock.preferred_auth_method)))

cmdAddModel(home, modelName) ==
    IF modelName = "" THEN Thrown(home)
    ELSE IF SeqIncludes(readModels(home), modelName) THEN Returned(home)
    ELSE Returned(writeModels(home, Append(readModels(home), modelName)))

cmdDeleteModel(home, modelName) ==
    LET models == readModels(home)
        Spliced(index) == SubSeq(models, 1, index - 1) \o SubSeq(models, index + 1, Len(models))
        Current(h, rest) ==
            IF \E e \in readCurrentModels(h) : e.model = modelName
            THEN writeCurrentModels(h, {[provider |-> e.provider,
                                         model |-> IF e.model = modelName THEN rest[1]
                                                   ELSE e.model] :
                                            e \in readCurrentModels(h)})
            ELSE h
        Deleted(rest) == Current(writeModels(home, rest), rest)
    IN IF ~SeqIncludes(models, modelName) THEN Thrown(home)
       ELSE IF Len(models) <= 1 THEN Thrown(home)
       ELSE Returned(Deleted(Spliced(CHOOSE i \in 1..Len(models) :
                                         /\ models[i] = modelName
                                         /\ \A j \in 1..(i - 1) : models[j] # modelName)))

cmdAdd(home, name, baseUrl, apiKey) ==
    IF name = "" \/ baseUrl = "" THEN Thrown(home)
    ELSE IF ~ConfigReadable(home) THEN Thrown(home)
    ELSE IF HasProvider(home.config.model_providers, name) THEN Thrown(home)
    ELSE LET Current(h) ==
                 IF CurrentModelOf(readCurrentModels(h), name) = ""
                 THEN writeCurrentModels(h, WithCurrentModel(readCurrentModels(h), name,
                                                             readModels(h)[1]))
                 ELSE h
         IN Returned(Current(writeConfig(home,
                [home.config EXCEPT !.model_providers =
                                        @ \cup {ProviderBlock(name, baseUrl, apiKey)}])))

\* apiKey: a string field, or NoString for undefined
cmdUpdate(home, name, baseUrl, apiKey) ==
    IF name = "" THEN Thrown(home)
    ELSE IF ~ConfigReadable(home) THEN Thrown(home)
    ELSE IF ~HasProvider(home.config.model_providers, name) THEN Thrown(home)
    ELSE LET Updated(block) ==
                 ProviderBlock(block.name,
                               IF baseUrl # "" THEN baseUrl ELSE block.base_url,
                               IF apiKey.string THEN apiKey.text
                               ELSE block.preferred_auth_method)
             Auth(h) ==
                 IF apiKey.string /\ name = home.config.model_provider
                 THEN updateAuthJson(h, apiKey.text)
                 ELSE h
         IN Returned(Auth(writeConfig(home,
                [home.config EXCEPT !.model_providers =
                    {IF block.name = name THEN Updated(block) ELSE block : block \in @}])))

cmdSwitch(home, providerName) ==
    IF ~ConfigReadable(home) THEN Thrown(home)
    ELSE IF ~HasProvider(home.config.model_providers, providerName) THEN Thrown(home)
    ELSE LET Model(h) ==
                 writeConfig(h, [h.config EXCEPT !.model =
                     IF CurrentModelOf(readCurrentModels(h), providerName) # ""
                     THEN CurrentModelOf(readCurrentModels(h), providerName)
                     ELSE readModels(h)[1]])
         IN Returned(Model(updateAuthJson(
                writeConfig(home, [home.config EXCEPT !.model_provider = providerName]),
                ProviderOf(home.config.model_providers, providerName).preferred_auth_method)))

cmdUseModel(home, modelName) ==
    IF ~SeqIncludes(readModels(home), modelName) THEN Thrown(home)
    ELSE IF ~ConfigReadable(home) THEN Thrown(home)
    ELSE IF home.config.model_provider = "" THEN Thrown(home)
    ELSE LET Current(h) ==
                 writeCurrentModels(h, WithCurrentModel(readCurrentModels(h),
                                                        home.config.model_provider,
                                                        modelName))
         IN Returned(Current(writeConfig(home, [home.config EXCEPT !.model = modelName])))

\* payload: providers and models in the order of the payload; apiKey is a
\* string field or NoString
importConfigData(home, payload, options) ==
    LET existingProviders == readConfigOrVirtualDefault(home).model_providers
        ImportProvider(h, provider) ==
            IF provider.name = "" \/ provider.baseUrl = "" THEN Returned(h)
            ELSE IF HasProvider(existingProviders, provider.name)
            THEN IF options.overwriteProviders
                 THEN cmdUpdate(h, provider.name, provider.baseUrl,
                                IF provider.apiKey.string /\ provider.apiKey.text # ""
                                THEN provider.apiKey ELSE NoString)
                 ELSE Returned(h)
            ELSE cmdAdd(h, provider.name, provider.baseUrl,
                        IF provider.apiKey.string THEN provider.apiKey.text ELSE "")
        RECURSIVE Providers(_, _)
        Providers(outcome, rest) ==
            IF rest = <<>> \/ outcome.threw THEN outcome
            ELSE Providers(ImportProvider(outcome.home, Head(rest)), Tail(rest))
        RECURSIVE Models(_, _)
        Models(outcome, rest) ==
            IF rest = <<>> \/ outcome.threw THEN outcome
            ELSE IF Head(rest) = "" THEN Models(outcome, Tail(rest))
            ELSE Models(cmdAddModel(outcome.home, Head(rest)), Tail(rest))
        RECURSIVE Merged(_, _)
        Merged(data, rest) ==
            IF rest = <<>> THEN data
            ELSE IF Head(rest).model = "" THEN Merged(data, Tail(rest))
            ELSE Merged(WithCurrentModel(data, Head(rest).provider, Head(rest).model),
                        Tail(rest))
        CurrentModels(h) ==
            IF options.applyCurrentModels
            THEN Returned(writeCurrentModels(h, Merged(readCurrentModels(h),
                                                       payload.currentModels)))
            ELSE Returned(h)
        Switch(h) ==
            IF HasProvider(readConfigOrVirtualDefault(h).model_providers,
                           payload.currentProvider)
            THEN cmdSwitch(h, payload.currentProvider)
            ELSE Returned(h)
        AddCurrent(h) ==
            IF ~SeqIncludes(readModels(h), payload.currentModel)
            THEN cmdAddModel(h, payload.currentModel)
            ELSE Returned(h)
        Use(h) == cmdUseModel(h, payload.currentModel)
        Current(h) ==
            IF options.applyCurrent /\ payload.currentProvider # ""
            THEN IF payload.currentModel # ""
                 THEN AndThen(AndThen(Switch(h), AddCurrent), Use)
                 ELSE Switch(h)
            ELSE Returned(h)
    IN IF ~payload.object THEN Returned(home)
       ELSE AndThen(AndThen(Models(Providers(Returned(home), payload.providers),
                                   payload.models),
                            CurrentModels),
                    Current)

\* <home>/.codex before the program has run, and after a first run on an
\* empty directory with the Web server started
EmptyDir ==
    [config |-> NoFile, mark |-> NoFile, backups |-> {}, models |-> NoFile,
     currentModels |-> NoFile, auth |-> NoFile, serving |-> FALSE]

ServingDir == [ensureManagedConfigBootstrap(EmptyDir, "unset", 0) EXCEPT !.serving = TRUE]

----------------------------------------------------------------------------
\* The server at time 0, before its first request
InitServer ==
    /\ mode = "sessions"
    /\ present \in InitialDisks
    /\ claudeIndex \in IndexChoices
    /\ now = 0
    /\ result = NoResult
    /\ unlinked = {}
    /\ deleted = {}
    /\ extSteps = 0
    /\ fnInput = <<>>
    /\ fnOutput = <<>>
    /\ fileLines = <<>>
    /\ pending = NoResult
    /\ codexDir = ServingDir

InitSessions == InitServer /\ cache = <<>> /\ lastList = {}

RemovedPaths(removed) == {r.path : r \in removed}

\* The cache key of a listSessions request
ListKey(params) == <<NormalizeSource(params.source), NormalizeLimit(params.limit)>>

\* History of listSessions: per key and forceRefresh flag the value last
\* returned and when; "latest" marks the most recent request of the key.
RecordList(history, key, force, sessions, time) ==
    {IF h.key = key THEN [h EXCEPT !.latest = FALSE] ELSE h :
        h \in {g \in history : ~(g.key = key /\ g.force = force)}}
    \cup {[key |-> key, force |-> force, ret |-> sessions, time |-> time, latest |-> TRUE]}

\* A listSessions request without parameters
PlainList == [source |-> "other", limit |-> NoLimit, forceRefresh |-> FALSE]

\* The server at time 0 after one listSessions request without parameters
InitListed ==
    /\ InitServer
    /\ \E r \in {listAllSessions(PlainList, present, claudeIndex, <<>>, 0)} :
          /\ cache = r.cache
          /\ lastList = RecordList({}, ListKey(PlainList), FALSE, r.sessions, 0)

ApiDeleteSession(params) ==
    /\ mode = "sessions"
    /\ callsLeft > 0
    /\ \E r \in {deleteSessionFile(params, FALSE, present, cache)} :
          /\ present' = r.present
          /\ cache' = r.cache
          /\ unlinked' = unlinked \cup r.removed
          /\ deleted' = deleted \cup RemovedPaths(r.removed)
          /\ lastList' = IF r.removed # {} THEN {} ELSE lastList
          /\ result' = [op |-> "delete", params |-> params,
                        ret |-> [success |-> r.success, error |-> r.error,
                                 source |-> r.source, sessionId |-> r.sessionId,
                                 filePath |-> r.filePath],
                        removed |-> RemovedPaths(r.removed),
                        invalidations |-> r.invalidations,
                        cachedBefore |-> Len(cache)]
    /\ callsLeft' = callsLeft - 1
    /\ UNCHANGED <<claudeIndex, now, extSteps, fnInput, fnOutput, mode, fileLines, pending, codexDir>>

ApiDeleteSessionsBatch(params) ==
    /\ mode = "sessions"
    /\ callsLeft > 0
    /\ \E r \in {deleteSessionFilesBatch(params, present, cache)} :
          /\ present' = r.present
          /\ cache' = r.cache
          /\ unlinked' = unlinked \cup r.removed
          /\ deleted' = deleted \cup RemovedPaths(r.removed)
          /\ lastList' = IF r.removed # {} THEN {} ELSE lastList
          /\ result' = [op |-> "batch", params |-> params,
                        ret |-> [rejected |-> r.rejected, error |-> r.error,
                                 success |-> r.success, total |-> r.total,
                                 deleted |-> r.deleted, failed |-> r.failed,
                                 results |-> r.results],
                        removed |-> RemovedPaths(r.removed),
                        invalidations |-> r.invalidations,
                        cachedBefore |-> Len(cache)]
    /\ callsLeft' = callsLeft - 1
    /\ UNCHANGED <<claudeIndex, now, extSteps, fnInput, fnOutput, mode, fileLines, pending, codexDir>>

ApiListSessions(params) ==
    /\ mode = "sessions"
    /\ callsLeft > 0
    /\ \E r \in {listAllSessions(params, present, claudeIndex, cache, now)} :
          /\ cache' = r.cache
          /\ result' = [op |-> "list", params |-> params, ret |-> r.sessions,
                        extAt |-> extSteps]
          /\ lastList' = RecordList(lastList, ListKey(params), params.forceRefresh,
                                    r.sessions, now)
    /\ callsLeft' = callsLeft - 1
    /\ UNCHANGED <<present, claudeIndex, now, unlinked, deleted, extSteps, fnInput,
                   fnOutput, mode, fileLines, pending, codexDir>>

Tick ==
    /\ mode = "sessions"
    /\ now < MaxTicks * TickMs
    /\ now' = now + TickMs
    /\ UNCHANGED <<present, claudeIndex, cache, result, unlinked, deleted, lastList,
                   callsLeft, extSteps, fnInput, fnOutput, mode, fileLines, pending, codexDir>>

\* Another program (the tool that writes the logs, the user) creates a file
ExternalCreate(p) ==
    /\ mode = "sessions"
    /\ extSteps < MaxExtSteps
    /\ p \notin present
    /\ Parent(p) \in Nodes => Parent(p) \in present
    /\ present' = present \cup {p}
    /\ deleted' = deleted \ {p}
    /\ extSteps' = extSteps + 1
    /\ UNCHANGED <<claudeIndex, cache, now, result, unlinked, lastList, callsLeft,
                   fnInput, fnOutput, mode, fileLines, pending, codexDir>>

\* and removes one
ExternalRemove(p) ==
    /\ mode = "sessions"
    /\ extSteps < MaxExtSteps
    /\ p \in present
    /\ present' = present \ {p}
    /\ extSteps' = extSteps + 1
    /\ UNCHANGED <<claudeIndex, cache, now, result, unlinked, deleted, lastList,
                   callsLeft, fnInput, fnOutput, mode, fileLines, pending, codexDir>>

\* Small input sets for the requests a machine is not about
ListInputsFew ==
    {[source |-> "other", limit |-> NoLimit, forceRefresh |-> FALSE],
     [source |-> "codex", limit |-> [finite |-> TRUE, value |-> 2], forceRefresh |-> FALSE]}

DeleteInputsFew ==
    {[source |-> "codex", filePath |-> F_a, sessionId |-> <<>>],
     [source |-> "claude", filePath |-> F_c, sessionId |-> <<>>],
     [source |-> "codex", filePath |-> F_txt, sessionId |-> <<>>]}

BatchInputsFew ==
    {[isArray |-> TRUE, items |-> <<Item("codex", F_variant, <<>>), Item("codex", F_B, <<>>)>>],
     [isArray |-> TRUE, items |-> <<Item("codex", F_a, <<>>), Item("claude", F_c, <<>>)>>]}

(* The deletion machine: deleteSession on every kind of request *)
InitDelete == InitSessions /\ callsLeft = MaxDeleteCalls

NextDelete ==
    \/ \E params \in DeleteInputs : ApiDeleteSession(params)
    \/ \E params \in BatchInputsFew : ApiDeleteSessionsBatch(params)
    \/ \E params \in ListInputsFew : ApiListSessions(params)

Spec == InitDelete /\ [][NextDelete]_vars

(* The batch machine: deleteSessionsBatch on every kind of request *)
InitBatch == (InitSessions \/ InitListed) /\ callsLeft = MaxBatchCalls

NextBatch == \E params \in BatchInputs : ApiDeleteSessionsBatch(params)

SpecBatch == InitBatch /\ [][NextBatch]_vars

(* The merger on its own: mergeAndLimitSessions applied to a list of items *)
MergeItem(source, filePath, updatedAt) ==
    [source |-> source, filePath |-> filePath, updatedAt |-> updatedAt]

MergeItems ==
    {MergeItem("codex", F_a, IsoTime(10)), MergeItem("codex", F_a, IsoTime(20)),
     MergeItem("claude", F_a, EmptyTime), MergeItem("codex", F_c, IsoTime(-5)),
     MergeItem("claude", F_c, GarbageTime), MergeItem("codex", NoPath, IsoTime(30)),
     MergeItem("claude", F_e, IsoTime(20))}

Pending == [done |-> FALSE, value |-> <<>>]
Done(value) == [done |-> TRUE, value |-> value]

Idle ==
    /\ present = {}
    /\ claudeIndex = <<>>
    /\ cache = <<>>
    /\ now = 0
    /\ result = NoResult
    /\ unlinked = {}
    /\ deleted = {}
    /\ lastList = {}
    /\ callsLeft = 0
    /\ extSteps = 0
    /\ fileLines = <<>>
    /\ pending = NoResult
    /\ codexDir = EmptyDir

InitMerge ==
    /\ mode = "merge"
    /\ Idle
    /\ fnInput \in [items : SeqsUpTo(MergeItems, MaxMergeLen), limit : 1..MaxMergeLen]
    /\ fnOutput = Pending

ApplyMerge ==
    /\ mode = "merge"
    /\ ~fnOutput.done
    /\ fnOutput' = Done(mergeAndLimitSessions(fnInput.items, fnInput.limit))
    /\ UNCHANGED <<present, claudeIndex, cache, now, result, unlinked, deleted, lastList,
                   callsLeft, extSteps, fnInput, mode, fileLines, pending, codexDir>>

(* The listing machine: listSessions for every source and limit, on a disk  *)
(* that changes; and the merger it rests on, called directly.               *)
InitList ==
    \/ InitSessions /\ callsLeft = MaxListCalls
    \/ InitMerge

NextList ==
    \/ \E params \in ListInputs : ApiListSessions(params)
    \/ \E params \in DeleteInputsFew : ApiDeleteSession(params)
    \/ \E p \in ExternalFiles : ExternalCreate(p)
    \/ \E p \in ExternalFiles : ExternalRemove(p)
    \/ ApplyMerge

SpecList == InitList /\ [][NextList]_vars

(* The leading-message filter on its own *)
Message(role, text) == [role |-> role, text |-> text]

M_system == Message(R_system, <<"Y", "o", "u", " ", "a", "r", "e", " ", "a", " ", "c", "o", "d", "i", "n", "g", " ", "a", "g", "e", "n", "t">>)
M_bootstrap == Message(R_user, <<"<", "I", "N", "S", "T", "R", "U", "C", "T", "I", "O", "N", "S", ">", "\n", "b", "e", " ", "n", "i", "c", "e">>)
M_bootstrap2 == Message(R_assistant, <<"u", "s", "e", " ", "C", "o", "d", "e", "x", " ", "\n", " ", "C", "L", "I">>)
M_hello == Message(R_user, <<"h", "e", "l", "l", "o">>)
M_hi == Message(R_assistant, <<"h", "i">>)
M_tool == Message(R_tool, <<>>)

MessageInputs == {M_system, M_bootstrap, M_bootstrap2, M_hello, M_hi, M_tool}

InitFilter ==
    /\ mode = "filter"
    /\ Idle
    /\ fnInput \in SeqsUpTo(MessageInputs, MaxMessages)
    /\ fnOutput = Pending

ApplyFilter ==
    /\ mode = "filter"
    /\ ~fnOutput.done
    /\ fnOutput' = Done(removeLeadingSystemMessage(fnInput))
    /\ UNCHANGED <<present, claudeIndex, cache, now, result, unlinked, deleted, lastList,
                   callsLeft, extSteps, fnInput, mode, fileLines, pending, codexDir>>

SpecFilter == InitFilter /\ [][ApplyFilter]_vars

(* The text extractor, called directly on content values: strings, null,   *)
(* objects with every combination of fields, arrays, and objects and       *)
(* arrays nested in them.                                                  *)
ContentInputs ==
    LET texts == {<<>>, <<" ", "a", " ">>}
        fields == {NoString} \cup {StringField(t) : t \in texts}
        leaves == {[kind |-> "none"]} \cup {[kind |-> "string", text |-> t] : t \in texts}
        flat == {ObjectContent(t, v, c, o) :
                    t \in fields, v \in fields, c \in {Undefined} \cup leaves, o \in fields}
        items == leaves \cup {ObjectContent(NoString, StringField(<<"b">>), Undefined, NoString),
                              ObjectContent(NoString, NoString, [kind |-> "none"],
                                            StringField(<<"c">>))}
        arrays == {[kind |-> "array", items |-> a] : a \in SeqsUpTo(items, MaxItems)}
        Wrap(c) == ObjectContent(NoString, NoString, c, StringField(<<"d">>))
    IN leaves \cup flat \cup arrays
       \cup {Wrap(c) : c \in arrays}
       \cup {Wrap(Wrap([kind |-> "string", text |-> <<"e", " ">>])),
             [kind |-> "array",
              items |-> <<[kind |-> "array",
                           items |-> <<[kind |-> "string", text |-> <<"f">>]>>],
                          Wrap([kind |-> "string", text |-> <<" ", "g">>])>>]}

InitText ==
    /\ mode = "text"
    /\ Idle
    /\ fnInput \in ContentInputs
    /\ fnOutput = Pending

ApplyText ==
    /\ mode = "text"
    /\ ~fnOutput.done
    /\ fnOutput' = Done(extractMessageText(fnInput))
    /\ UNCHANGED <<present, claudeIndex, cache, now, result, unlinked, deleted, lastList,
                   callsLeft, extSteps, fnInput, mode, fileLines, pending, codexDir>>

SpecText == InitText /\ [][ApplyText]_vars

(* The configuration machine: runs of the program (each starts with the    *)
(* bootstrap; `start` leaves the Web server listening), requests to /api,   *)
(* and the user removing config.toml between runs.                          *)
MaxConfigCalls == 3
RunGapMs == 1500

LegacyConfig ==
    ConfigText(FALSE, 0, "p1", "m1", {ProviderBlock("p1", "https://p1.example/v1", "k1")})

ConfigDirs ==
    {EmptyDir,
     [EmptyDir EXCEPT !.config = LegacyConfig],
     [EmptyDir EXCEPT !.config = LegacyConfig,
                      !.models = ModelsFile(<<"m1">>),
                      !.currentModels = CurrentModelsFile({[provider |-> "p1",
                                                            model |-> "m1"]}),
                      !.auth = [exists |-> TRUE, key |-> "k1"]],
     [EmptyDir EXCEPT !.config = GarbageConfig],
     [EmptyDir EXCEPT !.config = buildDefaultConfigContent(0)]}

EnvInputs == {"unset", "1", "true", "0"}

TemplateInputs ==
    {NoFile, GarbageConfig,
     ConfigText(FALSE, 0, "p2", "m2", {ProviderBlock("p2", "https://p2.example/v1", "k2")}),
     ConfigText(TRUE, 0, "p3", "m2", {ProviderBlock("p2", "https://p2.example/v1", "k2")})}

ImportPayloads ==
    {[object |-> FALSE],
     [object |-> TRUE,
      providers |-> <<[name |-> "p2", baseUrl |-> "https://p2.example/v1",
                       apiKey |-> StringField("k2")]>>,
      models |-> <<"m2">>, currentProvider |-> "p2", currentModel |-> "m2",
      currentModels |-> <<[provider |-> "p2", model |-> "m2"]>>],
     [object |-> TRUE,
      providers |-> <<[name |-> "openai", baseUrl |-> "https://proxy.example/v1",
                       apiKey |-> NoString],
                      [name |-> "p1", baseUrl |-> "", apiKey |-> NoString]>>,
      models |-> <<"", "gpt-4">>, currentProvider |-> "", currentModel |-> "",
      currentModels |-> <<>>]}

ImportOptions ==
    {[overwriteProviders |-> b, applyCurrent |-> b, applyCurrentModels |-> b] :
        b \in BOOLEAN}

InitConfig ==
    /\ mode = "sessions"
    /\ present = Nodes
    /\ claudeIndex = <<>>
    /\ cache = <<>>
    /\ lastList = {}
    /\ now = 0
    /\ result = NoResult
    /\ unlinked = {}
    /\ deleted = {}
    /\ extSteps = 0
    /\ fnInput = <<>>
    /\ fnOutput = <<>>
    /\ fileLines = <<>>
    /\ pending = NoResult
    /\ callsLeft = MaxConfigCalls
    /\ codexDir \in ConfigDirs

ConfigFrame ==
    UNCHANGED <<present, claudeIndex, cache, unlinked, deleted, lastList, extSteps,
                fnInput, fnOutput, mode, fileLines, pending>>

\* main(): ensureManagedConfigBootstrap, then the command
RunProgram(env, command) ==
    /\ mode = "sessions"
    /\ callsLeft > 0
    /\ callsLeft' = callsLeft - 1
    /\ \E gap \in {0, RunGapMs} : now' = now + gap
    /\ codexDir' = [ensureManagedConfigBootstrap(codexDir, env, now') EXCEPT
                        !.serving = @ \/ command = "start"]
    /\ result' = [op |-> "run", env |-> env, hadMark |-> codexDir.mark.exists,
                  hadConfig |-> codexDir.config.exists]
    /\ ConfigFrame

ApiCall(action, home, threw) ==
    /\ mode = "sessions"
    /\ codexDir.serving
    /\ callsLeft > 0
    /\ callsLeft' = callsLeft - 1
    /\ codexDir' = home
    /\ result' = [op |-> "api", action |-> action, threw |-> threw]
    /\ now' = now
    /\ ConfigFrame

ApiApplyConfigTemplate(template) ==
    ApiCall("apply-config-template", applyConfigTemplate(codexDir, template), FALSE)

ApiImportConfig(payload, options) ==
    \E outcome \in {importConfigData(codexDir, payload, options)} :
        ApiCall("import-config", outcome.home, outcome.threw)

\* switch, use, add, delete, update: refused with a message
ApiRefused(action) == ApiCall(action, codexDir, FALSE)

ApiAddModel(model) ==
    \E outcome \in {cmdAddModel(codexDir, model)} :
        ApiCall("add-model", outcome.home, outcome.threw)

ApiDeleteModel(model) ==
    \E outcome \in {cmdDeleteModel(codexDir, model)} :
        ApiCall("delete-model", outcome.home, outcome.threw)

\* status, list, models, get-config-template, export-config: reads only
ApiReadConfig(action) == ApiCall(action, codexDir, FALSE)

\* delete-session and the other requests about sessions
ApiSessionAction ==
    /\ codexDir.serving
    /\ ApiDeleteSession([source |-> "codex", filePath |-> F_a, sessionId |-> <<>>])

\* The user removes config.toml
RemoveConfig ==
    /\ mode = "sessions"
    /\ extSteps < MaxExtSteps
    /\ codexDir.config.exists
    /\ extSteps' = extSteps + 1
    /\ codexDir' = [codexDir EXCEPT !.config = NoFile]
    /\ result' = [op |-> "external"]
    /\ UNCHANGED <<present, claudeIndex, cache, now, unlinked, deleted, lastList,
                   callsLeft, fnInput, fnOutput, mode, fileLines, pending>>

NextConfig ==
    \/ \E env \in EnvInputs, command \in {"start", "status"} : RunProgram(env, command)
    \/ \E template \in TemplateInputs : ApiApplyConfigTemplate(template)
    \/ \E payload \in ImportPayloads, options \in ImportOptions :
          ApiImportConfig(payload, options)
    \/ \E action \in {"switch", "use", "add", "delete", "update"} : ApiRefused(action)
    \/ \E model \in {"m2", "gpt-4", ""} : ApiAddModel(model)
    \/ \E model \in {"m2", "gpt-4"} : ApiDeleteModel(model)
    \/ \E action \in {"status", "list", "models", "get-config-template", "export-config"} :
          ApiReadConfig(action)
    \/ ApiSessionAction
    \/ RemoveConfig

SpecConfig == InitConfig /\ [][NextConfig]_vars

(* The scans and the session resolution, called directly: on disks with    *)
(* and without the unreadable directory and the noise directory, with scan *)
(* budgets below and above the number of files.                            *)
MaxReturnCount == 3
MaxScanBudget == 4

ScanDisks ==
    LET all == Directories \cup Files
    IN {all, all \ {F_a}, all \ {F_c}, all \ {D_sub, F_sub}, Nodes, {}}

ScanRoots == {CODEX_SESSIONS_DIR, CLAUDE_PROJECTS_DIR, D_lock}

RecentInputs ==
    {[fn |-> "recent", fs |-> fs, rootDir |-> rootDir, returnCount |-> r,
      maxFilesScanned |-> m, ignoreDir |-> ignoreDir] :
        fs \in ScanDisks, rootDir \in ScanRoots,
        r \in 1..MaxReturnCount, m \in 1..MaxScanBudget,
        ignoreDir \in {<<>>, S_subagents, Basename(D_ro)}}

CollectInputs ==
    {[fn |-> "collect", fs |-> fs, rootDir |-> rootDir, maxFiles |-> m] :
        fs \in ScanDisks, rootDir \in ScanRoots,
        m \in (1..MaxScanBudget) \cup {COLLECT_JSONL_MAX_FILES}}

ResolveInputs ==
    {[fn |-> "resolve", fs |-> fs, source |-> source, filePath |-> filePath,
      sessionId |-> sessionId] :
        fs \in ScanDisks, source \in {"codex", "claude"},
        filePath \in FilePathInputs \cup {F_lock, F_sub, D_proj},
        sessionId \in SessionIdInputs}

InitScan ==
    /\ mode = "scan"
    /\ Idle
    /\ fnInput \in {call \in RecentInputs : call.returnCount <= call.maxFilesScanned}
                    \cup CollectInputs \cup ResolveInputs
    /\ fnOutput = Pending

ApplyRecent ==
    /\ mode = "scan"
    /\ fnInput.fn = "recent"
    /\ ~fnOutput.done
    /\ fnOutput' = Done(collectRecentJsonlFiles(fnInput.fs, fnInput.rootDir,
                                                fnInput.returnCount,
                                                fnInput.maxFilesScanned, fnInput.ignoreDir))
    /\ UNCHANGED <<present, claudeIndex, cache, now, result, unlinked, deleted, lastList,
                   callsLeft, extSteps, fnInput, mode, fileLines, pending, codexDir>>

ApplyCollect ==
    /\ mode = "scan"
    /\ fnInput.fn = "collect"
    /\ ~fnOutput.done
    /\ fnOutput' = Done(collectJsonlFiles(fnInput.fs, fnInput.rootDir, fnInput.maxFiles))
    /\ UNCHANGED <<present, claudeIndex, cache, now, result, unlinked, deleted, lastList,
                   callsLeft, extSteps, fnInput, mode, fileLines, pending, codexDir>>

ApplyResolve ==
    /\ mode = "scan"
    /\ fnInput.fn = "resolve"
    /\ ~fnOutput.done
    /\ fnOutput' = Done(resolveSessionFilePath(fnInput.fs, fnInput.source,
                                               fnInput.filePath, fnInput.sessionId))
    /\ UNCHANGED <<present, claudeIndex, cache, now, result, unlinked, deleted, lastList,
                   callsLeft, extSteps, fnInput, mode, fileLines, pending, codexDir>>

NextScan == ApplyRecent \/ ApplyCollect \/ ApplyResolve

SpecScan == InitScan /\ [][NextScan]_vars

(* The cache machine: repeated listSessions requests on two keys, with and  *)
(* without forceRefresh, while the clock runs, files come and go and        *)
(* sessions are deleted.                                                    *)
CacheListInputs ==
    {PlainList, [PlainList EXCEPT !.forceRefresh = TRUE],
     [PlainList EXCEPT !.limit = [finite |-> TRUE, value |-> 2]]}

CacheDeleteInputs == {[source |-> "codex", filePath |-> F_a, sessionId |-> <<>>]}

CacheBatchInputs ==
    {[isArray |-> TRUE, items |-> <<Item("codex", F_txt, <<>>), Item("claude", F_c, <<>>)>>]}

InitCache ==
    /\ InitSessions \/ InitListed
    /\ claudeIndex = <<IndexEntry(<<"c">>, NoPath, IsoTime(20))>>
    /\ callsLeft = MaxCacheCalls

NextCache ==
    \/ \E params \in CacheListInputs : ApiListSessions(params)
    \/ \E params \in CacheDeleteInputs : ApiDeleteSession(params)
    \/ \E params \in CacheBatchInputs : ApiDeleteSessionsBatch(params)
    \/ Tick
    \/ \E p \in ExternalFiles : ExternalCreate(p)
    \/ \E p \in ExternalFiles : ExternalRemove(p)

SpecCache == InitCache /\ [][NextCache]_vars

(* The reading machine: session-detail and export-session requests on a     *)
(* session file of every kind of content, the summary the list view makes   *)
(* of the file, and delete-session requests.  A read request is handled in  *)
(* two steps: up to its first await (the stream is created), and from the   *)
(* stream's data to the response; the handlers of other requests run        *)
(* between the two.  Every session file of this disk holds the same lines.  *)
(* The file with more messages than MAX_EXPORT_MESSAGES gets one request.   *)
InitRead ==
    LET Str(text) == [kind |-> "string", text |-> text]
        NoPay == [present |-> FALSE, type |-> <<>>, role |-> <<>>,
                  content |-> [kind |-> "none"], id |-> <<>>, cwd |-> <<>>,
                  timestamp |-> EmptyTime]
        Obj == [json |-> "object", end |-> 0, type |-> <<>>, timestamp |-> EmptyTime,
                cwd |-> <<>>, sessionId |-> <<>>,
                message |-> [present |-> FALSE, content |-> [kind |-> "none"]],
                payload |-> NoPay]
        Other(json) == [Obj EXCEPT !.json = json]
        Meta(id, cwd) ==
            [Obj EXCEPT !.type = <<"s", "e", "s", "s", "i", "o", "n", "_", "m", "e", "t", "a">>,
                        !.payload = [NoPay EXCEPT !.present = TRUE, !.id = id, !.cwd = cwd]]
        Codex(role, content, time) ==
            [Obj EXCEPT !.type = <<"r", "e", "s", "p", "o", "n", "s", "e", "_", "i", "t", "e", "m">>,
                        !.timestamp = time,
                        !.payload = [NoPay EXCEPT !.present = TRUE,
                                                  !.type = <<"m", "e", "s", "s", "a", "g", "e">>,
                                                  !.role = role, !.content = content]]
        Claude(type, content, time) ==
            [Obj EXCEPT !.type = type, !.timestamp = time, !.cwd = <<"/", "w">>,
                        !.sessionId = <<"s", "1">>,
                        !.message = [present |-> TRUE, content |-> content]]
        abc == Meta(<<"a", "b", "c">>, <<"/", "t", "m", "p">>)
        fixBug == Codex(R_user, Str(<<"F", "i", "x", " ", "b", "u", "g">>), EmptyTime)
        done == Codex(R_assistant, Str(<<"D", "o", "n", "e">>), IsoTime(60))
        note == Codex(R_system, Str(<<"n", "o", "t", "e">>), IsoTime(70))
        \* The lines with the offsets of their ends
        Sized(lines, ends) ==
            SubSeq([i \in 1..Len(lines) |-> [lines[i] EXCEPT !.end = ends[i]]],
                   1, Len(lines))
        \* Lines of LineBytes bytes each
        Placed(lines) ==
            Sized(lines, [i \in 1..Len(lines) |-> i * (LineBytes + 1) - 1])
    IN /\ mode = "sessions"
       /\ present = Nodes
       /\ claudeIndex = <<>>
       /\ cache = <<>>
       /\ now = 0
       /\ result = NoResult
       /\ unlinked = {}
       /\ deleted = {}
       /\ lastList = {}
       /\ extSteps = 0
       /\ fnInput = <<>>
       /\ fnOutput = <<>>
       /\ pending = NoResult
       /\ codexDir = ServingDir
       /\ fileLines \in
            {Sized(<<abc, fixBug, done>>,
                   <<LineBytes, SESSION_TITLE_READ_BYTES + LineBytes,
                     SESSION_TITLE_READ_BYTES + 2 * LineBytes + 1>>),
             Sized(<<abc, Codex(R_system, Str(M_system.text), EmptyTime), fixBug,
                     Codex(R_user, Str(<<"o", "k">>), IsoTime(40)), done>>,
                   <<LineBytes, SESSION_SUMMARY_READ_BYTES + LineBytes,
                     SESSION_SUMMARY_READ_BYTES + 2 * LineBytes + 1,
                     SESSION_SUMMARY_READ_BYTES + 3 * LineBytes + 2,
                     SESSION_SUMMARY_READ_BYTES + 4 * LineBytes + 3>>)}
            \cup {Placed(lines) : lines \in
            { <<>>,
              <<Other("invalid")>>,
              <<Other("blank"), Other("invalid")>>,
              <<Other("null")>>,
              <<abc>>,
              <<abc, fixBug, done>>,
              <<abc, Codex(R_user, Str(<<"o", "k">>), IsoTime(40)), done>>,
              <<abc, Other("null"), fixBug>>,
              <<abc, Codex(R_system, Str(M_system.text), GarbageTime),
                Codex(R_user, Str(M_bootstrap.text), EmptyTime), fixBug, done>>,
              <<abc, fixBug, done, note,
                Codex(R_user,
                      [kind |-> "array",
                       items |-> <<Str(<<" ", "a">>), Str(<<>>),
                                   ObjectContent(StringField(<<"b">>), NoString, Undefined,
                                                 NoString),
                                   ObjectContent(NoString, NoString, Str(<<"c", " ">>),
                                                 NoString),
                                   [kind |-> "none"]>>], IsoTime(80)),
                Codex(R_assistant, Str(<<" ">>), IsoTime(90)), Other("invalid"), done>>,
              <<abc, fixBug, Codex(R_user, Str(<<" ", "F", "i", "x", "\n", " ", "b", "u", "g">>),
                                   EmptyTime)>>,
              <<Claude(R_user, Str(M_hello.text), IsoTime(10)),
                Claude(<<" ", "A", "s", "s", "i", "s", "t", "a", "n", "t">>, Str(M_hi.text),
                       IsoTime(20)),
                Claude(R_tool, Str(<<"t">>), IsoTime(30)),
                Claude(R_user, ObjectContent(NoString, NoString, Str(<<"b", "y", "e">>),
                                             StringField(<<"n", "o">>)),
                       GarbageTime)>>,
              <<abc>> \o [i \in 1..(MAX_EXPORT_MESSAGES + MaxExtraMessages) |->
                             Codex(IF i % 2 = 1 THEN R_user ELSE R_assistant,
                                   Str(<<"m">>), IsoTime(i))] }}
       /\ callsLeft = IF Len(fileLines) > MAX_EXPORT_MESSAGES THEN 1 ELSE MaxReadCalls

\* session-detail and export-session up to the first await: the source is
\* checked and the session file resolved; the stream is created
ReadBegin(op, params) ==
    LET source == IF params.source = "claude" \/ params.source = "codex" THEN params.source
                  ELSE ""
        Failure(message) ==
            [threw |-> FALSE, error |-> message, source |-> source, sessionId |-> <<>>,
             cwd |-> <<>>, updatedAt |-> EmptyTime, totalMessages |-> 0, clipped |-> FALSE,
             messageLimitHalves |-> 0, messages |-> <<>>, filePath |-> NoPath,
             content |-> <<>>]
        Stream(filePath) ==
            IF filePath = NoPath
            THEN /\ result' = [op |-> op, params |-> params, atomic |-> TRUE,
                               ret |-> Failure("Session file not found")]
                 /\ pending' = pending
            ELSE /\ pending' = [op |-> op, params |-> params, source |-> source,
                                filePath |-> filePath, disk |-> present]
                 /\ result' = result
    IN /\ mode = "sessions"
       /\ callsLeft > 0
       /\ pending.op = "none"
       /\ IF source = ""
          THEN /\ result' = [op |-> op, params |-> params, atomic |-> TRUE,
                             ret |-> Failure("Invalid source")]
               /\ pending' = pending
          ELSE Stream(resolveSessionFilePath(present, source, params.filePath,
                                             params.sessionId))
       /\ callsLeft' = callsLeft - 1
       /\ UNCHANGED <<present, claudeIndex, cache, now, unlinked, deleted, lastList,
                      extSteps, fnInput, fnOutput, mode, fileLines, codexDir>>

\* and from the stream's data to the response
ReadEnd ==
    LET Respond(extracted) ==
            IF pending.op = "detail"
            THEN readSessionDetail(pending.params, pending.source, pending.filePath, extracted)
            ELSE exportSessionData(pending.params, pending.source, pending.filePath,
                                   extracted, present, fileLines)
    IN /\ mode = "sessions"
       /\ pending.op # "none"
       /\ result' = [op |-> pending.op, params |-> pending.params,
                     atomic |-> pending.disk = present,
                     ret |-> Respond(extractMessagesFromRecords(
                                         readJsonlRecords(present, pending.filePath, fileLines),
                                         pending.source))]
       /\ pending' = NoResult
       /\ UNCHANGED <<present, claudeIndex, cache, now, unlinked, deleted, lastList,
                      callsLeft, extSteps, fnInput, fnOutput, mode, fileLines, codexDir>>

\* What listCodexSessions and listClaudeSessions do with one file they found:
\* parse its summary, and push it unless it is null
ListFile(source) ==
    /\ mode = "sessions"
    /\ callsLeft > 0
    /\ result' = [op |-> "summary", params |-> [source |-> source], atomic |-> TRUE,
                  ret |-> parseSessionSummary(source, present,
                                              IF source = "codex" THEN F_a ELSE F_c, fileLines)]
    /\ callsLeft' = callsLeft - 1
    /\ UNCHANGED <<present, claudeIndex, cache, now, unlinked, deleted, lastList,
                   extSteps, fnInput, fnOutput, mode, fileLines, pending, codexDir>>

NextRead ==
    \/ \E op \in {"detail", "export"} :
          \E params \in
                [source : {"codex"}, filePath : {F_a}, sessionId : {<<>>},
                 messageLimit : {[finite |-> FALSE, halves |-> 0]}
                                \cup [finite : {TRUE},
                                      halves : {0, 2, 4, 5, 2 * MAX_SESSION_DETAIL_MESSAGES + 2}]]
                \cup [source : {"claude", "other"}, filePath : {F_c}, sessionId : {<<>>},
                      messageLimit : {[finite |-> FALSE, halves |-> 0]}]
                \cup [source : {"codex"}, filePath : {F_out, D_dir}, sessionId : {<<"c">>},
                      messageLimit : {[finite |-> FALSE, halves |-> 0]}] :
             ReadBegin(op, params)
    \/ ReadEnd
    \/ \E source \in {"codex", "claude"} : ListFile(source)
    \/ \E params \in DeleteInputsFew : ApiDeleteSession(params)

SpecRead == InitRead /\ [][NextRead]_vars

(* The full-cache machine: the server after listSessions requests with one  *)
(* limit each (none, all but one of the entries the cache can hold, or all  *)
(* of them), then listSessions requests with and without forceRefresh for   *)
(* the oldest key and a new key, while the clock runs, a file comes and     *)
(* goes and sessions are deleted.                                           *)
InitStore ==
    LET Request(k) == [PlainList EXCEPT !.limit = [finite |-> TRUE, value |-> k]]
        \* Request k finds no entry under its key and stores its list last
        Sessions(k) == listAllSessions(Request(k), present, claudeIndex, <<>>, 0).sessions
        Listed(n) ==
            [cache |-> SubSeq([k \in 1..n |-> [key |-> ListKey(Request(k)), timestamp |-> 0,
                                               value |-> Sessions(k)]], 1, n),
             lastList |-> {[key |-> ListKey(Request(k)), force |-> FALSE,
                            ret |-> Sessions(k), time |-> 0, latest |-> TRUE] : k \in 1..n}]
    IN /\ InitServer
       /\ present = Nodes
       /\ claudeIndex = <<IndexEntry(<<"c">>, NoPath, IsoTime(20))>>
       /\ callsLeft = MaxStoreCalls
       /\ \E n \in {0, SESSION_LIST_CACHE_MAX_ENTRIES - 1, SESSION_LIST_CACHE_MAX_ENTRIES} :
             \E listed \in {Listed(n)} :
                /\ cache = listed.cache
                /\ lastList = listed.lastList

NextStore ==
    \/ \E k \in {1, SESSION_LIST_CACHE_MAX_ENTRIES + 1}, force \in BOOLEAN :
          ApiListSessions([PlainList EXCEPT !.limit = [finite |-> TRUE, value |-> k],
                                            !.forceRefresh = force])
    \/ \E params \in CacheDeleteInputs : ApiDeleteSession(params)
    \/ Tick
    \/ ExternalCreate(F_a)
    \/ ExternalRemove(F_a)

SpecStore == InitStore /\ [][NextStore]_vars


----------------------------------------------------------------------------
(* Properties *)

ValidSource(source) == source = "codex" \/ source = "claude"

\* Strictly inside root on the case-sensitive disk
InsideRoot(p, root) == IsPrefixPath(root, p) /\ Len(p) > Len(root)

\* C1: every file unlinked by deleteSession or deleteSessionsBatch lies inside
\* the root directory of the source named in the request, has a path ending
\* in ".jsonl" and is a regular file; nothing outside the two session roots is
\* removed.
C1_UnlinkedInsideRoot ==
    \A u \in unlinked :
        /\ InsideRoot(u.path, SourceRoot(u.source))
        /\ EndsWith(Basename(u.path), JsonlExt)
        /\ IsFile(u.path)

\* C2: deleteSession with a filePath outside the root of its source returns
\* "Session file not found" and does not remove the file at that path.
C2_OutsideRootNotFound ==
    ( /\ result.op = "delete"
      /\ ValidSource(result.params.source)
      /\ result.params.filePath # NoPath
      /\ ~IsPrefixPath(SourceRoot(result.params.source),
                       PathResolve(result.params.filePath)) )
    => /\ ~result.ret.success
       /\ result.ret.error = "Session file not found"
       /\ PathResolve(result.params.filePath) \notin result.removed

\* A step that handles one deleteSession request
DeleteStep == callsLeft' = callsLeft - 1 /\ result'.op = "delete"

\* What a deleteSession step must return and change, given how the ".jsonl"
\* suffix of the resolved path is compared.
DeleteOutcome(ignoreCase) ==
    LET p == result'.params
        ret == result'.ret
        Name(resolved) ==
            IF ignoreCase THEN ToLowerCase(Basename(resolved)) ELSE Basename(resolved)
        Expected(resolved) ==
            IF ~ValidSource(p.source) THEN "Invalid source"
            ELSE IF resolved = NoPath THEN "Session file not found"
            ELSE IF ~EndsWith(Name(resolved), JsonlExt) THEN "Invalid session file"
            ELSE IF ~IsFile(resolved) THEN "Session path is not a file"
            ELSE IF ~UnlinkSucceeds(present, resolved)
            THEN "Failed to delete session: EACCES"
            ELSE ""
    IN /\ ret.error
              = Expected(resolveSessionFilePath(present, p.source, p.filePath, p.sessionId))
       /\ ret.success = (ret.error = "")
       /\ ~ret.success
              => /\ present' = present
                 /\ cache' = cache
                 /\ unlinked' = unlinked
       /\ ret.success
              => /\ ret.filePath \in present
                 /\ ret.filePath \notin present'

C6_DeleteEmptiesCache ==
    /\ (result.op = "delete" /\ result.ret.success)
           => cache = <<>> /\ result.invalidations = 1
    /\ (result.op = "batch" /\ result.ret.deleted > 0)
           => cache = <<>> /\ result.invalidations = 1
    /\ result.op = "list"
           => \A i \in 1..Len(result.ret) : result.ret[i].filePath \notin deleted

\* C6 witness: a file named in a cached list was deleted and the cache is
\* empty afterwards
C6_Witness ==
    /\ result.op = "delete"
    /\ result.ret.success
    /\ result.cachedBefore > 0
    /\ result.invalidations = 1
    /\ cache = <<>>

\* A step that handles one listSessions request without forceRefresh
PlainListStep ==
    /\ callsLeft' = callsLeft - 1
    /\ result'.op = "list"
    /\ ~result'.params.forceRefresh

\* C5 (as stated): a listSessions call without forceRefresh returns what the
\* previous call with the same parameters returned, when that call was made
\* at most the TTL ago and no delete happened since.
C5_IdempotentWithinTtlOfCall ==
    [][PlainListStep =>
          \A h \in lastList :
              ( /\ h.key = ListKey(result'.params)
                /\ ~h.force
                /\ now - h.time <= SESSION_LIST_CACHE_TTL_MS )
              => result'.ret = h.ret]_vars

\* C5 (amended): a listSessions call without forceRefresh returns what the
\* latest call for the same source and limit returned, when no delete
\* happened since and the cache still holds the entry of that key, stored at
\* most the TTL ago.
C5_IdempotentWhileEntryFresh ==
    [][PlainListStep =>
          \A h \in lastList :
              ( /\ h.key = ListKey(result'.params)
                /\ h.latest
                /\ h.key \in CacheKeys(cache)
                /\ now - CacheEntry(cache, h.key).timestamp <= SESSION_LIST_CACHE_TTL_MS )
              => result'.ret = h.ret]_vars

\* C5 witness: the second of two identical calls, made when the entry was
\* exactly TTL old and the disk had changed, returned the stored list, which
\* is not the list of the disk as it is
C5_Witness ==
    /\ result.op = "list"
    /\ ~result.params.forceRefresh
    /\ result.extAt > 0
    /\ result.extAt = extSteps
    /\ \E h \in lastList :
          /\ h.key = ListKey(result.params)
          /\ ~h.force
          /\ h.time = now
    /\ \E i \in 1..Len(cache) :
          /\ cache[i].key = ListKey(result.params)
          /\ now - cache[i].timestamp = SESSION_LIST_CACHE_TTL_MS
          /\ cache[i].value = result.ret
          /\ cache[i].value # listAllSessions(
                 [result.params EXCEPT !.forceRefresh = TRUE], present, claudeIndex,
                 cache, now).sessions

SameKey(a, b) == a.source = b.source /\ a.filePath = b.filePath

NoDuplicates(list) ==
    \A i, j \in 1..Len(list) : SameKey(list[i], list[j]) => i = j

\* Every entry of out is the first item of items with its (source, filePath)
FirstOccurrences(items, out) ==
    \A k \in 1..Len(out) :
        \E i \in 1..Len(items) :
            /\ items[i] = out[k]
            /\ \A j \in 1..(i - 1) : ~SameKey(items[j], out[k])

\* C3: no list returned by listSessions and no result of mergeAndLimitSessions
\* holds two entries with the same (source, filePath), and an entry of a
\* merged result is the first item of the input with that (source, filePath).
C3_UniqueKeys ==
    /\ result.op = "list" => NoDuplicates(result.ret)
    /\ (mode = "merge" /\ fnOutput.done)
           => /\ NoDuplicates(fnOutput.value)
              /\ FirstOccurrences(fnInput.items, fnOutput.value)

\* C3 witness: the merger was given two items of one (source, filePath), the
\* later one the more recent, and kept the earlier one
C3_Witness ==
    /\ mode = "merge"
    /\ fnOutput.done
    /\ Len(fnInput.items) >= 2
    /\ fnInput.items[1] = MergeItem("codex", F_a, IsoTime(10))
    /\ fnInput.items[2] = MergeItem("codex", F_a, IsoTime(20))
    /\ fnOutput.value # <<>>
    /\ \E k \in 1..Len(fnOutput.value) : fnOutput.value[k] = fnInput.items[1]

\* a is not before b, an updatedAt that is missing or unparsable being before
\* every time
NotBefore(a, b) == b.kind # "iso" \/ (a.kind = "iso" /\ a.ms >= b.ms)

\* C4 (as stated): listSessions(limit = L) returns at most L entries, sorted
\* by updatedAt descending, those without a parsable updatedAt last.
C4_AtMostLSortedMissingLast ==
    (result.op = "list" /\ result.params.limit.finite)
        => /\ Len(result.ret) <= result.params.limit.value
           /\ \A i, j \in 1..Len(result.ret) :
                  i < j => NotBefore(result.ret[i].updatedAt, result.ret[j].updatedAt)

\* C4 (amended): listSessions(limit = L) returns at most max(1, min(L, 300))
\* entries (at most 120 when L is not a finite number), sorted descending by
\* Date.parse(updatedAt), a missing or unparsable updatedAt counting as the
\* epoch (0).
C4_AtMostClampedSortedByParse ==
    result.op = "list"
        => /\ Len(result.ret) <=
                  (IF result.params.limit.finite
                   THEN Max(1, Min(result.params.limit.value, 300))
                   ELSE 120)
           /\ \A i, j \in 1..Len(result.ret) :
                  i < j => DateParseOrZero(result.ret[i].updatedAt)
                               >= DateParseOrZero(result.ret[j].updatedAt)

\* C4 witness: a list cut to its limit of 2 in which an entry without
\* updatedAt stands before an entry dated before the epoch
C4_Witness ==
    /\ result.op = "list"
    /\ result.params.limit.finite
    /\ result.params.limit.value = 2
    /\ Len(result.ret) = 2
    /\ result.ret[1].updatedAt = EmptyTime
    /\ result.ret[2].updatedAt = IsoTime(-5)

\* C7: deleteSessionsBatch on 1..500 items returns one entry per item in
\* input order, total = number of items, deleted = number of entries with
\* success, failed = total - deleted; an item with a wrong extension is
\* flagged with its error and the items after it are still deleted.
C7_BatchProcessesEveryItem ==
    ( /\ result.op = "batch"
      /\ result.params.isArray
      /\ Len(result.params.items) \in 1..500 )
    => LET items == result.params.items
           ret == result.ret
       IN /\ ~ret.rejected
          /\ Len(ret.results) = Len(items)
          /\ ret.total = Len(items)
          /\ ret.deleted = Cardinality({i \in 1..Len(ret.results) : ret.results[i].success})
          /\ ret.failed = ret.total - ret.deleted
          /\ ret.success = (ret.failed = 0)
          /\ \A i \in 1..Len(items) :
                /\ ret.results[i].success
                       => /\ items[i].kind = "object"
                          /\ ret.results[i].source = items[i].source
                          /\ ret.results[i].filePath = PathResolve(items[i].filePath)
                          /\ ret.results[i].filePath \in result.removed
                          /\ ret.results[i].filePath \notin present
                /\ ~ret.results[i].success
                       => /\ ret.results[i].error # ""
                          /\ items[i].kind = "object"
                                 => /\ ret.results[i].filePath = items[i].filePath
                                    /\ ret.results[i].sessionId = items[i].sessionId
                /\ items[i] = Item("codex", F_txt, <<>>)
                       => /\ ~ret.results[i].success
                          /\ ret.results[i].error = "Invalid session file"
                /\ items[i] \in {Item("codex", F_a, <<>>), Item("claude", F_c, <<>>)}
                       => items[i].filePath \notin present

\* C7 witness: the batch of three whose second item has a wrong extension
C7_Witness ==
    /\ result.op = "batch"
    /\ result.params.isArray
    /\ result.params.items
           = <<Item("codex", F_a, <<>>), Item("codex", F_txt, <<>>), Item("claude", F_c, <<>>)>>
    /\ result.ret.total = 3
    /\ result.ret.deleted = 2
    /\ result.ret.failed = 1
    /\ ~result.ret.results[2].success
    /\ result.ret.results[3].success
    /\ result.removed = {F_a, F_c}

\* A step that handles one deleteSessionsBatch request
BatchRequestStep == callsLeft' = callsLeft - 1 /\ result'.op = "batch"

Skipped(m) == normalizeRole(m.role) = R_system \/ isBootstrapLikeText(m.text)

\* C10: removeLeadingSystemMessage returns the messages from the first one
\* after the first that is neither of role system nor bootstrap-like text on,
\* in their order (none when there is no such message or the list is empty);
\* [system_preamble, bootstrap_text, user hello, assistant hi] gives
\* [user hello, assistant hi].
C10_LeadingFilter ==
    (mode = "filter" /\ fnOutput.done)
    => LET kept == {i \in 2..Len(fnInput) : ~Skipped(fnInput[i])}
           out == fnOutput.value
       IN /\ kept = {} => out = <<>>
          /\ kept # {}
                 => out = [k \in 1..(Len(fnInput) + 1 - (CHOOSE i \in kept : \A j \in kept : i <= j))
                              |-> fnInput[k - 1 + (CHOOSE i \in kept : \A j \in kept : i <= j)]]
          /\ fnInput = <<M_system, M_bootstrap, M_hello, M_hi>> => out = <<M_hello, M_hi>>

\* C10 witness: the list of the scenario has been filtered
C10_Witness ==
    /\ mode = "filter"
    /\ fnOutput.done
    /\ fnInput = <<M_system, M_bootstrap, M_hello, M_hi>>
    /\ fnOutput.value = <<M_hello, M_hi>>

----------------------------------------------------------------------------
(* Reading session files *)

\* The request last handled is a read of a resolved session file that ran
\* with no other request between its two steps and returned a value
ReadOk(op) ==
    /\ result.op = op
    /\ result.atomic
    /\ ~result.ret.threw
    /\ result.ret.error = ""

\* Every message of the file, in file order: the records of the format with
\* a role and a text
FileMessages(source) ==
    LET Held(records) ==
            SelectSeq(records, LAMBDA r : /\ RecordShape(r, source).is
                                          /\ RecordShape(r, source).text # <<>>)
        Messages(held) ==
            [k \in 1..Len(held) |->
                [role |-> RecordShape(held[k], source).role,
                 text |-> RecordShape(held[k], source).text,
                 timestamp |-> toIsoTime(held[k].timestamp, EmptyTime)]]
    IN Messages(Held(SelectSeq(fileLines, LAMBDA line : line.json = "object")))

\* The file is the Format A scenario: a session_meta with an id and a cwd,
\* a user message with a short text, an assistant message
ScenarioFile ==
    /\ Len(fileLines) = 3
    /\ RecordShape(fileLines[1], "codex").meta
    /\ fileLines[1].payload.id # <<>>
    /\ fileLines[1].payload.cwd # <<>>
    /\ RecordShape(fileLines[2], "codex").role = R_user
    /\ RecordShape(fileLines[2], "codex").text # <<>>
    /\ Len(RecordShape(fileLines[2], "codex").text) < TRUNCATE_MAX_LENGTH
    /\ RecordShape(fileLines[3], "codex").role = R_assistant

ScenarioSummaryStep ==
    /\ result.op = "summary"
    /\ result.params.source = "codex"
    /\ F_a \in present
    /\ ScenarioFile

C12_ExportHoldsEveryMessage ==
    LET Label(role) == IF role = R_assistant THEN <<"A", "s", "s", "i", "s", "t", "a", "n", "t">>
                       ELSE IF role = R_user THEN <<"U", "s", "e", "r">>
                       ELSE <<"S", "y", "s", "t", "e", "m">>
        Sections(doc, messages) ==
            /\ Len(doc) = 10 + 4 * Len(messages)
            /\ \A i \in 1..Len(messages) :
                  /\ doc[10 + 4 * (i - 1) + 1].kind = "heading"
                  /\ doc[10 + 4 * (i - 1) + 1].index = i
                  /\ doc[10 + 4 * (i - 1) + 1].role = Label(messages[i].role)
                  /\ doc[10 + 4 * (i - 1) + 3].text = messages[i].text
        Holds(messages) ==
            (Len(messages) >= 1 /\ Len(messages) <= MAX_EXPORT_MESSAGES)
                => Sections(result.ret.content, messages)
    IN ReadOk("export") => Holds(FileMessages(result.ret.source))

\* C13 as stated: for a session file with zero parseable lines the list view
\* has no summary (null), and session-detail and export-session return the
\* error 'Session file is empty'.
C13_EmptyFile ==
    (\A i \in 1..Len(fileLines) : fileLines[i].json \in {"blank", "invalid"}) =>
        /\ (result.op = "summary" /\ F_a \in present /\ F_c \in present) =>
               (result.ret.null /\ ~result.ret.threw)
        /\ (/\ result.op \in {"detail", "export"}
            /\ result.atomic
            /\ IsFile(result.ret.filePath)) =>
               (~result.ret.threw /\ result.ret.error = "Session file is empty")

\* C14 as stated: every SessionDetail has messageLimit in [1, 1000] (300
\* for a request without a finite limit), messages a suffix of the filtered
\* list with length min(totalMessages, messageLimit), clipped exactly when
\* messages were left out, and totalMessages at most 1000.
C14_DetailInvariants ==
    LET IsSuffix(messages, all) ==
            /\ Len(messages) <= Len(all)
            /\ messages = SubSeq(all, Len(all) - Len(messages) + 1, Len(all))
        Extracted(source) ==
            extractMessagesFromRecords(
                readJsonlRecords(Nodes, result.ret.filePath, fileLines), source).messages
        Detail(d) ==
            /\ d.messageLimitHalves >= 2
            /\ d.messageLimitHalves <= 2 * MAX_SESSION_DETAIL_MESSAGES
            /\ ~result.params.messageLimit.finite =>
                  d.messageLimitHalves = 2 * DEFAULT_SESSION_DETAIL_MESSAGES
            /\ 2 * Len(d.messages) = Min(2 * d.totalMessages, d.messageLimitHalves)
            /\ d.clipped = (Len(d.messages) < d.totalMessages)
            /\ d.totalMessages <= MAX_EXPORT_MESSAGES
            /\ IsSuffix(d.messages, removeLeadingSystemMessage(Extracted(d.source)))
    IN ReadOk("detail") => Detail(result.ret)

\* C15 as stated: getSessionDetail returns the last min(limit, n) messages
\* of the file's whole filtered message sequence of length n, also for a
\* file with more messages than the extraction cap.  (Stated for whole
\* limits.)
C15_MostRecentOfFile ==
    LET Last(all, limit) == SubSeq(all, Len(all) - Min(limit, Len(all)) + 1, Len(all))
    IN (/\ ReadOk("detail")
        /\ IsFile(result.ret.filePath)
        /\ result.ret.messageLimitHalves % 2 = 0) =>
           result.ret.messages =
               Last(removeLeadingSystemMessage(FileMessages(result.ret.source)),
                    result.ret.messageLimitHalves \div 2)

\* C16 as stated: no operation on session files throws or rejects, whatever
\* the files hold; failures are returned as {error} values.
C16_NeverThrows ==
    result.op \in {"summary", "detail", "export"} => ~result.ret.threw

\* C17 as stated: no delete-session or delete-sessions request is handled
\* between the start and the end of a session-detail or export-session
\* request.
C17_NoDeleteDuringRead ==
    [][pending.op # "none" => (unlinked' = unlinked /\ present' = present)]_vars

----------------------------------------------------------------------------
(* The session-list cache *)

\* A listSessions request has just been handled
ListStep ==
    /\ callsLeft' = callsLeft - 1
    /\ result'.op = "list"

\* The entry of the key is in the cache and not older than the TTL
FreshEntry(c, key, time) ==
    /\ key \in CacheKeys(c)
    /\ time - CacheEntry(c, key).timestamp <= SESSION_LIST_CACHE_TTL_MS

\* The list computed from the disk
ListFromDisk(params) ==
    listAllSessions([params EXCEPT !.forceRefresh = TRUE], present, claudeIndex, <<>>,
                    now).sessions

\* C18: a cache lookup returns the stored value only when the key has an
\* entry whose age is at most the TTL; otherwise it returns nothing, the
\* list is computed from the disk, and an expired entry is removed by the
\* lookup (the entry stored afterwards is a new one, last in the cache).
C18_GetNeverServesExpired ==
    [][LET Contract(key, got, ret, after) ==
            IF FreshEntry(cache, key, now)
            THEN /\ got.hit
                 /\ got.value = CacheEntry(cache, key).value
                 /\ got.cache = cache
                 /\ ret = CacheEntry(cache, key).value
                 /\ after = cache
            ELSE /\ ~got.hit
                 /\ key \notin CacheKeys(got.cache)
                 /\ got.cache = CacheDelete(cache, key)
                 /\ ret = ListFromDisk(result'.params)
                 /\ Len(after) >= 1
                 /\ after[Len(after)] = [key |-> key, timestamp |-> now, value |-> ret]
                 /\ \A i \in 1..(Len(after) - 1) : after[i].key # key
       IN PlainListStep =>
            Contract(ListKey(result'.params),
                     getSessionListCache(cache, ListKey(result'.params), FALSE, now),
                     result'.ret, cache')]_vars

\* A request without forceRefresh found the oldest entry expired in a full
\* cache: the entry is gone from the front and a new one is last
C18_Witness ==
    /\ result.op = "list"
    /\ ~result.params.forceRefresh
    /\ \A h \in lastList : ~h.force
    /\ Len(cache) = SESSION_LIST_CACHE_MAX_ENTRIES
    /\ ListKey(result.params) = <<"all", 1>>
    /\ cache[Len(cache)].key = <<"all", 1>>
    /\ cache[Len(cache)].timestamp = now
    /\ now > SESSION_LIST_CACHE_TTL_MS
    /\ cache[1].key = <<"all", 2>>
    /\ cache[1].timestamp = 0

\* C19: the cache never holds more than 20 entries; a request that stores
\* a list when 20 other keys are held evicts exactly the oldest-inserted
\* entry (whatever was read last) and keeps the entry just stored; any
\* other store evicts nothing.
C19_BoundedFifo ==
    /\ [](Len(cache) <= SESSION_LIST_CACHE_MAX_ENTRIES)
    /\ [][LET Stored(key, base, entry, after) ==
                  /\ after = (IF Len(base) = SESSION_LIST_CACHE_MAX_ENTRIES
                              THEN Tail(base) ELSE base) \o <<entry>>
                  /\ key \in CacheKeys(after)
              Set(key, ret, after) ==
                  IF ~result'.params.forceRefresh /\ FreshEntry(cache, key, now)
                  THEN after = cache
                  ELSE Stored(key, CacheDelete(cache, key),
                              [key |-> key, timestamp |-> now, value |-> ret], after)
          IN ListStep => Set(ListKey(result'.params), result'.ret, cache')]_vars

\* The oldest entry was read after the others were stored, and is the one
\* evicted by the store of a new key
C19_Witness ==
    /\ result.op = "list"
    /\ ListKey(result.params) = <<"all", SESSION_LIST_CACHE_MAX_ENTRIES + 1>>
    /\ Len(cache) = SESSION_LIST_CACHE_MAX_ENTRIES
    /\ cache[Len(cache)].key = ListKey(result.params)
    /\ cache[1].key = <<"all", 2>>
    /\ <<"all", 1>> \notin CacheKeys(cache)
    /\ \E h \in lastList : h.key = <<"all", 1>> /\ ~h.force /\ h.time > cache[1].timestamp

ForceStep == ListStep /\ result'.params.forceRefresh

\* C20 as stated: listSessions with forceRefresh returns the list computed
\* from the disk, never a cached value, replaces the entry of its key by a
\* new one holding that list, and leaves the entries of all other keys
\* untouched.
C20_ForceRefreshFrame ==
    [][LET Refreshed(key, ret, after) ==
            /\ ret = ListFromDisk(result'.params)
            /\ Len(after) >= 1
            /\ after[Len(after)] = [key |-> key, timestamp |-> now, value |-> ret]
            /\ \A i \in 1..(Len(after) - 1) : after[i].key # key
            /\ \A i \in 1..Len(cache) :
                  cache[i].key # key => \E j \in 1..Len(after) : after[j] = cache[i]
       IN ForceStep => Refreshed(ListKey(result'.params), result'.ret, cache')]_vars

\* C20 amended: listSessions with forceRefresh returns the list computed
\* from the disk, never a cached value, and replaces the entry of its key
\* by a new one holding that list; the entries of the other keys are left
\* untouched, except that the oldest-inserted of them is evicted when 20
\* other keys are held.
C20_ForceRefreshFrameBounded ==
    [][LET Refreshed(key, ret, others, after) ==
            /\ ret = ListFromDisk(result'.params)
            /\ after = (IF Len(others) = SESSION_LIST_CACHE_MAX_ENTRIES
                        THEN Tail(others) ELSE others)
                       \o <<[key |-> key, timestamp |-> now, value |-> ret]>>
       IN ForceStep => Refreshed(ListKey(result'.params), result'.ret,
                                 CacheDelete(cache, ListKey(result'.params)), cache')]_vars

\* A forced request for a new key on a full cache: its list is stored and
\* the oldest entry of another key is gone
C20_Witness ==
    /\ result.op = "list"
    /\ result.params.forceRefresh
    /\ ListKey(result.params) = <<"all", SESSION_LIST_CACHE_MAX_ENTRIES + 1>>
    /\ Len(cache) = SESSION_LIST_CACHE_MAX_ENTRIES
    /\ cache[Len(cache)] = [key |-> ListKey(result.params), timestamp |-> now,
                            value |-> result.ret]
    /\ \A i \in 1..Len(cache) : cache[i].key # <<"all", 1>>
    /\ \A h \in lastList : h.force => h.key = ListKey(result.params)

----------------------------------------------------------------------------
(* The text extractor *)

\* C25: extractMessageText of a string is the trimmed string; of an array,
\* the extractions of its elements that are not empty, in order, joined by
\* newlines; of an object, what the first of these gives: its text field
\* if a string, its value field if a string, its nested content if it has
\* one (extracted in turn), its output field if a string; of anything else
\* the empty string.
C25_ExtractMessageText ==
    LET Parts(items) ==
            SelectSeq([i \in 1..Len(items) |-> extractMessageText(items[i])],
                      LAMBDA part : part # <<>>)
        OfObject(o) ==
            IF o.text.string THEN Trim(o.text.text)
            ELSE IF o.value.string THEN Trim(o.value.text)
            ELSE IF o.content.kind # "undefined" THEN extractMessageText(o.content)
            ELSE IF o.output.string THEN Trim(o.output.text)
            ELSE <<>>
        Expected(c) ==
            IF c.kind = "string" THEN Trim(c.text)
            ELSE IF c.kind = "array" THEN JoinLines(Parts(c.items))
            ELSE IF c.kind = "object" THEN OfObject(c)
            ELSE <<>>
    IN (mode = "text" /\ fnOutput.done) => fnOutput.value = Expected(fnInput)

\* An object without text and value whose nested content, an array of two
\* usable elements, wins over its output field
C25_Witness ==
    /\ mode = "text"
    /\ fnOutput.done
    /\ fnInput.kind = "object"
    /\ ~fnInput.text.string
    /\ ~fnInput.value.string
    /\ fnInput.output.string
    /\ fnInput.content.kind = "array"
    /\ fnOutput.value = <<"a", "\n", "b">>

----------------------------------------------------------------------------
(* Lines, heads and summaries *)

\* The messages the summary extractors collect from the first maxBytes
\* bytes of the session file, after the leading filter
HeadMessages(source, filePath, maxBytes) ==
    LET Collected(records) ==
            SelectSeq([i \in 1..Len(records) |-> RecordShape(records[i], source)],
                      LAMBDA shape : shape.is)
        Preview(found) ==
            [k \in 1..Len(found) |-> [role |-> found[k].role, text |-> found[k].text]]
    IN removeLeadingSystemMessage(
           Preview(Collected(parseJsonlHeadRecords(present, filePath, fileLines, maxBytes))))

HasTitle(messages) ==
    \E i \in 1..Len(messages) : messages[i].role = R_user /\ messages[i].text # <<>>

\* The list view has made a summary of the session file
SummaryMade ==
    /\ result.op = "summary"
    /\ ~result.ret.threw
    /\ ~result.ret.null

C28_TitleRereadLarger ==
    (/\ SummaryMade
     /\ ~HasTitle(HeadMessages(result.ret.source, result.ret.filePath,
                               SESSION_SUMMARY_READ_BYTES))) =>
        /\ SESSION_TITLE_READ_BYTES > SESSION_SUMMARY_READ_BYTES
        /\ result.ret.messageCount =
               Len(HeadMessages(result.ret.source, result.ret.filePath,
                                SESSION_SUMMARY_READ_BYTES))
        /\ ~HasTitle(HeadMessages(result.ret.source, result.ret.filePath,
                                  SESSION_TITLE_READ_BYTES)) =>
               result.ret.title = result.ret.sessionId

\* C29 as stated: for a session file that lies within the head read and
\* holds fewer than 1000 messages, the summary's messageCount equals the
\* detail's totalMessages and both have the same updatedAt.
C29_ListAndDetailAgree ==
    LET Agree(summary, detail) ==
            (~summary.null /\ ~summary.threw) =>
                /\ summary.messageCount = detail.totalMessages
                /\ summary.updatedAt = detail.updatedAt
    IN (/\ ReadOk("detail")
        /\ IsFile(result.ret.filePath)
        /\ \A i \in 1..Len(fileLines) : fileLines[i].end <= SESSION_SUMMARY_READ_BYTES
        /\ Len(fileLines) < MAX_EXPORT_MESSAGES) =>
           Agree(parseSessionSummary(result.ret.source, present, result.ret.filePath,
                                     fileLines),
                 result.ret)

----------------------------------------------------------------------------
(* Scans and session resolution *)

\* The .jsonl files a scan from root can come to: every directory from the
\* root down to the file exists and can be read
ScanFiles(fs, root) ==
    LET Listed(dir) == dir \in fs /\ IsDirectory(dir) /\ dir \notin UnreadableDirs
    IN {p \in Files \cap fs :
           /\ IsPrefixPath(root, p)
           /\ Len(p) > Len(root)
           /\ \A n \in Len(root)..(Len(p) - 1) : Listed(SubSeq(p, 1, n))
           /\ EndsWith(Basename(p), JsonlExt)}

SeqRange(items) == {items[i] : i \in 1..Len(items)}

\* C26: collectRecentJsonlFiles examines at most maxFilesScanned .jsonl
\* files, returns at most returnCount paths, newest first by mtime, each an
\* existing .jsonl file under the root, none with the ignored sub-path; the
\* ignored files take nothing from the budget (the scan examines
\* maxFilesScanned files whenever that many others exist), and the paths
\* returned are the newest of the examined ones.
C26_RecentFiles ==
    (mode = "scan" /\ fnInput.fn = "recent" /\ fnOutput.done) =>
        LET call == fnInput
            out == fnOutput.value
            Ignored(p) ==
                /\ call.ignoreDir # <<>>
                /\ call.ignoreDir \in {p[n] : n \in 1..(Len(p) - 1)}
            eligible == {p \in ScanFiles(call.fs, call.rootDir) : ~Ignored(p)}
            Examined(walked) ==
                /\ Len(walked) <= call.maxFilesScanned
                /\ Len(walked) = Min(call.maxFilesScanned, Cardinality(eligible))
                /\ {walked[i].filePath : i \in 1..Len(walked)} \subseteq eligible
                /\ SeqRange(out) \subseteq {walked[i].filePath : i \in 1..Len(walked)}
                /\ Len(out) = Min(call.returnCount, Len(walked))
                /\ \A i \in 1..Len(walked) :
                      walked[i].filePath \notin SeqRange(out) =>
                          \A j \in 1..Len(out) :
                              FileHead(out[j]).mtimeMs >= walked[i].mtimeMs
        IN /\ Len(out) <= call.returnCount
           /\ \A i \in 1..(Len(out) - 1) :
                 FileHead(out[i]).mtimeMs >= FileHead(out[i + 1]).mtimeMs
           /\ \A i, j \in 1..Len(out) : i # j => out[i] # out[j]
           /\ \A i \in 1..Len(out) :
                 /\ out[i] \in call.fs
                 /\ IsFile(out[i])
                 /\ EndsWith(Basename(out[i]), JsonlExt)
                 /\ IsPrefixPath(call.rootDir, out[i])
                 /\ ~Ignored(out[i])
           /\ Examined(RecentWalk(call.fs, <<call.rootDir>>, <<>>, 0,
                                  call.maxFilesScanned, call.ignoreDir))

\* A scan of the Claude root that met the noise directory, re-ordered what
\* it found and cut it to returnCount; a scan of the Codex root that passed
\* an ignored file and then used the rest of its budget
C26_Witness ==
    /\ mode = "scan"
    /\ fnInput.fn = "recent"
    /\ fnOutput.done
    /\ \/ /\ fnInput.rootDir = CLAUDE_PROJECTS_DIR
          /\ fnInput.ignoreDir = S_subagents
          /\ F_sub \in fnInput.fs
          /\ fnInput.returnCount = 1
          /\ fnInput.maxFilesScanned = 3
          /\ fnOutput.value = <<F_e>>
       \/ /\ fnInput.rootDir = CODEX_SESSIONS_DIR
          /\ fnInput.ignoreDir = Basename(D_ro)
          /\ fnInput.returnCount = 2
          /\ fnInput.maxFilesScanned = 2
          /\ fnOutput.value = <<F_a, F_d>>

\* C27: a scan gives a list and no error on every tree, and a directory that
\* cannot be read is passed over: the scan returns files of the readable
\* directories only, and as many of them as its budget allows.
C27_UnreadableSkipped ==
    (mode = "scan" /\ fnInput.fn \in {"recent", "collect"} /\ fnOutput.done) =>
        LET call == fnInput
            out == fnOutput.value
            found == IF call.fn = "collect" THEN ScanFiles(call.fs, call.rootDir)
                     ELSE {p \in ScanFiles(call.fs, call.rootDir) :
                              \/ call.ignoreDir = <<>>
                              \/ call.ignoreDir \notin {p[n] : n \in 1..(Len(p) - 1)}}
            budget == IF call.fn = "collect" THEN call.maxFiles
                      ELSE Min(call.returnCount, call.maxFilesScanned)
        IN /\ out \in Seq(Files)
           /\ SeqRange(out) \subseteq found
           /\ Len(out) = Min(budget, Cardinality(found))
           /\ \A i \in 1..Len(out) :
                 \A n \in Len(call.rootDir)..(Len(out[i]) - 1) :
                     SubSeq(out[i], 1, n) \notin UnreadableDirs

\* A scan of the Codex root with the unreadable directory on disk, which
\* found the files of the root and of the readable directory next to it
C27_Witness ==
    /\ mode = "scan"
    /\ fnInput.fn = "collect"
    /\ fnOutput.done
    /\ fnInput.rootDir = CODEX_SESSIONS_DIR
    /\ {D_lock, F_lock} \subseteq fnInput.fs
    /\ fnOutput.value = <<F_a, F_ro, F_d>>

\* C30 as stated: a filePath that exists inside the root of the source is
\* returned; otherwise the first file of the scan (at most 5000 files) whose
\* name contains the sessionId, case-insensitively; otherwise ''.  So every
\* result other than '' is an existing file under the root of the source.
C30_Resolution ==
    (mode = "scan" /\ fnInput.fn = "resolve" /\ fnOutput.done) =>
        LET call == fnInput
            out == fnOutput.value
            root == SourceRoot(call.source)
            target == PathResolve(call.filePath)
            targetId == ToLowerCase(Trim(call.sessionId))
            files == collectJsonlFiles(call.fs, root, COLLECT_JSONL_MAX_FILES)
            matches == {i \in 1..Len(files) :
                           Includes(ToLowerCase(Basename(files[i])), targetId)}
            First(found) == files[CHOOSE i \in found : \A j \in found : i <= j]
        IN /\ out = IF root \notin call.fs THEN NoPath
                    ELSE IF /\ call.filePath # NoPath
                            /\ target \in call.fs
                            /\ IsPrefixPath(root, target)
                         THEN target
                    ELSE IF targetId # <<>> /\ matches # {} THEN First(matches)
                    ELSE NoPath
           /\ out # NoPath =>
                 /\ out \in call.fs
                 /\ IsFile(out)
                 /\ IsPrefixPath(root, out)

----------------------------------------------------------------------------
(* config.toml: first run, later runs, the Web API *)

\* C21: a run that finds no init mark and a config.toml without the managed
\* marker copies the file to the backup named after the time of the run,
\* writes the init mark and leaves config.toml as it was, unless
\* CODEXMATE_FORCE_RESET_EXISTING_CONFIG is exactly '1': then config.toml
\* becomes the default configuration and the backup holds the original.
C21_FirstRunKeepsConfig ==
    [][(/\ result'.op = "run"
        /\ ~codexDir.mark.exists
        /\ codexDir.config.exists
        /\ ~codexDir.config.managed) =>
           /\ [name |-> formatTimestampForFileName(now'), content |-> codexDir.config]
                  \in codexDir'.backups
           /\ codexDir'.mark.exists
           /\ codexDir'.mark.backupFile = formatTimestampForFileName(now')
           /\ IF result'.env = "1"
              THEN codexDir'.config = buildDefaultConfigContent(now')
              ELSE codexDir'.config = codexDir.config]_vars

\* A first run with the variable set to 'true' that kept the user's config
C21_Witness ==
    /\ result.op = "run"
    /\ ~result.hadMark
    /\ result.hadConfig
    /\ result.env = "true"
    /\ codexDir.mark.exists
    /\ codexDir.mark.mode = "legacy-config-preserved"
    /\ codexDir.config = LegacyConfig
    /\ \E b \in codexDir.backups : b.content = LegacyConfig

\* C22: a run that finds the init mark makes no backup and leaves the mark
\* as it is; it leaves config.toml as it is when the file exists and writes
\* the default configuration when the file is missing.
C22_LaterRunsIdempotent ==
    [][(result'.op = "run" /\ codexDir.mark.exists) =>
           /\ codexDir'.backups = codexDir.backups
           /\ codexDir'.mark = codexDir.mark
           /\ IF codexDir.config.exists
              THEN codexDir'.config = codexDir.config
              ELSE codexDir'.config = buildDefaultConfigContent(now')]_vars

\* A later run, with the reset variable set, on a directory whose first run
\* had made a backup of the user's config
C22_Witness ==
    /\ result.op = "run"
    /\ result.hadMark
    /\ result.hadConfig
    /\ result.env = "1"
    /\ codexDir.mark.mode = "legacy-config-preserved"
    /\ codexDir.config = LegacyConfig
    /\ Cardinality(codexDir.backups) = 1

\* C23 as stated: of the requests to /api only apply-config-template
\* changes config.toml.
C23_OnlyTemplateWrites ==
    [][codexDir'.config # codexDir.config =>
           \/ result'.op \in {"run", "external"}
           \/ result'.op = "api" /\ result'.action = "apply-config-template"]_vars


====
